---- MODULE Spec2Model ----
(***************************************************************************)
(* Model of the music-stats-dashboard plugin of youtube-music: the local   *)
(* event store (StatsDatabase), the access-token cache and the Google      *)
(* Drive reconciliation pass (StatsBackend.syncDriveNow).                  *)
(*                                                                         *)
(* Time is counted in units of 60 s (60000 ms), so the 60000 ms freshness  *)
(* margin of the token cache is one unit.  A JSON text is a tagged value:  *)
(* [kind |-> "json", value |-> v] for JSON.stringify(v), "garbage" for a   *)
(* text JSON.parse rejects, "empty" for the empty string and "null" for a  *)
(* failed download.  SHA-256 is taken to be collision free: the digest of  *)
(* a text is the text itself under the tag "sha256".                       *)
(***************************************************************************)
EXTENDS Integers, Sequences, FiniteSets, TLC

VARIABLES
  now,        \* Date.now()
  config,     \* the persisted StatsConfig (cloud sync fields)
  session,    \* sessionAccessToken, sessionAccessTokenExpiry, sessionRefreshToken
  isSyncing,  \* StatsBackend.isSyncing
  syncTimer,  \* StatsBackend.syncTimer is set
  data,       \* StatsDatabase.data
  isDirty,    \* StatsDatabase.isDirty
  disk,       \* content of the file at dbPath
  diskOk,     \* whether a write of that file succeeds at present
  remote,     \* the Drive appDataFolder: file id -> content
  call,       \* per caller of syncDriveNow: position and locals
  outcome,    \* what the last finished call of syncDriveNow returned
  passes,     \* the number of passes begun
  writes,     \* the writes of the file at dbPath that save() has pending
  answer,     \* what the last call of the store returned
  timers,     \* the number of live intervals set by startSyncTimer
  backend,    \* the StatsBackend instance: "none", "running" or "stopped"
  auth        \* per authorization attempt: the state of startDriveAuth

storeVars == <<data, isDirty, disk, diskOk, writes, answer>>
lifeVars == <<syncTimer, timers, backend, auth>>
syncVars ==
  <<config, session, isSyncing, lifeVars, remote, call, outcome, passes>>
vars ==
  <<now, config, session, isSyncing, syncTimer, data, isDirty, disk, diskOk,
    remote, call, outcome, passes, writes, answer, timers, backend, auth>>

---------------------------------------------------------------------------
(* Bounds of the model *)

MaxTime == 1
MaxRecords == 2
MaxFiles == 2
MaxPasses == 2

(* Program constants *)

SKEW == 1
DefaultExpiresIn == 60
DAY == 1440

---------------------------------------------------------------------------
(* Play records.  songId falls back to the song title and artistId to the  *)
(* artist name (renderer.ts getSongInfo), so both are free text.           *)

RecP == [songId |-> "p", artistId |-> "q", timestamp |-> 0,
         durationListened |-> 30, totalDuration |-> 200]
RecX == [songId |-> "a|b", artistId |-> "c", timestamp |-> 1440,
         durationListened |-> 45, totalDuration |-> 200]
RecY == [songId |-> "a", artistId |-> "b|c", timestamp |-> 1440,
         durationListened |-> 45, totalDuration |-> 200]
RecZ == [songId |-> "z", artistId |-> "c", timestamp |-> 1440,
         durationListened |-> 45, totalDuration |-> 200]

(* What is played on this machine, and on the other machine *)
Plays == {RecP, RecX}
RemotePlays == {RecY, RecZ}

WithId(r, n) ==
  [songId |-> r.songId, artistId |-> r.artistId, timestamp |-> r.timestamp,
   durationListened |-> r.durationListened, totalDuration |-> r.totalDuration,
   id |-> n]

(* The identity of a record, spec section 3 *)
Identity(r) ==
  <<r.songId, r.artistId, r.timestamp, r.durationListened, r.totalDuration>>

(* The map key of mergeExports.  The three numbers print without a "|", so *)
(* the tail of the key is kept as numbers.                                 *)
RecordKey(r) ==
  <<r.songId \o "|" \o r.artistId, r.timestamp, r.durationListened, r.totalDuration>>

---------------------------------------------------------------------------
(* The document and its export *)

(* A JavaScript object used as a map is a function on its keys; null is the *)
(* empty tuple and a present streak the one-element tuple.                 *)
EmptyMap == [k \in {} |-> 0]

EmptyData ==
  [playRecords |-> <<>>, dailyAggregates |-> EmptyMap,
   monthlyAggregates |-> EmptyMap, streak |-> <<>>]

Json(v) == [kind |-> "json", value |-> v]
Garbage == [kind |-> "garbage"]
EmptyText == [kind |-> "empty"]
NullText == [kind |-> "null"]

IsJson(t) == t.kind = "json"

NoHash == [kind |-> "none"]

hashString(value) == [kind |-> "sha256", of |-> value]

Bundle(date, d) ==
  [version |-> 1, exportDate |-> date, playRecords |-> d.playRecords,
   dailyAggregates |-> d.dailyAggregates,
   monthlyAggregates |-> d.monthlyAggregates, streak |-> d.streak]

exportData(d, t) == Json(Bundle(t, d))

DataOf(b) ==
  [playRecords |-> b.playRecords, dailyAggregates |-> b.dailyAggregates,
   monthlyAggregates |-> b.monthlyAggregates, streak |-> b.streak]

parseExport(t) ==
  IF IsJson(t)
    THEN [exportDate |-> t.value.exportDate, data |-> DataOf(t.value)]
    ELSE [exportDate |-> 0, data |-> EmptyData]

---------------------------------------------------------------------------
(* mergeExports *)

RECURSIVE DedupeByKey(_, _)
DedupeByKey(records, seen) ==
  IF records = <<>> THEN <<>>
  ELSE IF RecordKey(Head(records)) \in seen
    THEN DedupeByKey(Tail(records), seen)
    ELSE <<Head(records)>> \o
         DedupeByKey(Tail(records), seen \cup {RecordKey(Head(records))})

mergeAggregate(left, right) ==
  [k \in (DOMAIN left) \cup (DOMAIN right) |->
     IF k \notin DOMAIN left THEN right[k]
     ELSE IF k \notin DOMAIN right THEN left[k]
     ELSE IF right[k].totalMinutes # 0 /\ left[k].totalMinutes # 0
               /\ right[k].totalMinutes > left[k].totalMinutes
       THEN right[k]
       ELSE left[k]]

mergeStreak(a, b) ==
  IF a = <<>> THEN b
  ELSE IF b = <<>> THEN a
  ELSE IF a[1].lastListenDate > b[1].lastListenDate THEN a ELSE b

mergeExports(l, r, t) ==
  [version |-> 1, exportDate |-> t,
   playRecords |-> DedupeByKey(l.data.playRecords \o r.data.playRecords, {}),
   dailyAggregates |->
     mergeAggregate(l.data.dailyAggregates, r.data.dailyAggregates),
   monthlyAggregates |->
     mergeAggregate(l.data.monthlyAggregates, r.data.monthlyAggregates),
   streak |-> mergeStreak(l.data.streak, r.data.streak)]

---------------------------------------------------------------------------
(* StatsDatabase *)

addPlayRecord(d, r) ==
  [d EXCEPT !.playRecords = Append(@, WithId(r, Len(@) + 1))]

DayOf(timestamp) == timestamp \div DAY

(* updateStreak that counts on after a gap of more than a day *)
updateStreakNoReset(d, timestamp) ==
  LET today == DayOf(timestamp)
      diffDays == today - d.streak[1].lastListenDate
  IN IF d.streak = <<>>
       THEN [d EXCEPT !.streak = <<[lastListenDate |-> today, currentStreak |-> 1]>>]
     ELSE IF diffDays >= 1
       THEN [d EXCEPT !.streak = <<[lastListenDate |-> today,
                                    currentStreak |-> @[1].currentStreak + 1]>>]
     ELSE d

(* updateStreak that starts again at any day other than the next *)
updateStreakRegress(d, timestamp) ==
  LET today == DayOf(timestamp)
      diffDays == today - d.streak[1].lastListenDate
  IN IF d.streak = <<>>
       THEN [d EXCEPT !.streak = <<[lastListenDate |-> today, currentStreak |-> 1]>>]
     ELSE IF diffDays = 1
       THEN [d EXCEPT !.streak = <<[lastListenDate |-> today,
                                    currentStreak |-> @[1].currentStreak + 1]>>]
     ELSE IF diffDays # 0
       THEN [d EXCEPT !.streak = <<[lastListenDate |-> today, currentStreak |-> 1]>>]
     ELSE d

(* StatsBackend.updateStreak over the document *)
updateStreak(d, timestamp) ==
  LET today == DayOf(timestamp)
      diffDays == today - d.streak[1].lastListenDate
  IN IF d.streak = <<>>
       THEN [d EXCEPT !.streak = <<[lastListenDate |-> today, currentStreak |-> 1]>>]
     ELSE IF diffDays = 1
       THEN [d EXCEPT !.streak = <<[lastListenDate |-> today,
                                    currentStreak |-> @[1].currentStreak + 1]>>]
     ELSE IF diffDays > 1
       THEN [d EXCEPT !.streak = <<[lastListenDate |-> today, currentStreak |-> 1]>>]
     ELSE d

(* importData up to the save: the four fields of the parsed text *)
importedData(t) ==
  LET imported == t.value
      Field(name, default) ==
        IF name \in DOMAIN imported THEN imported[name] ELSE default
  IN [playRecords |-> Field("playRecords", <<>>),
      dailyAggregates |-> Field("dailyAggregates", EmptyMap),
      monthlyAggregates |-> Field("monthlyAggregates", EmptyMap),
      streak |-> Field("streak", <<>>)]

---------------------------------------------------------------------------
(* The remote store and the configuration *)

FileIds == 1 .. MaxFiles
NoFile == 0
Unused == [kind |-> "unused"]
Deleted == [kind |-> "deleted"]

Exists(f) == remote[f].kind \notin {"unused", "deleted"}

BlankConfig ==
  [cloudSyncEnabled |-> FALSE, cloudSyncClientId |-> "",
   cloudSyncRefreshToken |-> "", cloudSyncAccessToken |-> "",
   cloudSyncAccessTokenExpiry |-> 0, cloudSyncFileId |-> NoFile,
   cloudSyncLastSyncTime |-> -1, cloudSyncLastHash |-> NoHash,
   cloudSyncLastError |-> ""]

NoSession == [accessToken |-> "", accessTokenExpiry |-> 0, refreshToken |-> ""]

(* The result of syncDriveNow, with the message of the exception caught *)
NoResult == [ok |-> FALSE, message |-> "", thrown |-> ""]

Result(ok, message, thrown) == [ok |-> ok, message |-> message, thrown |-> thrown]

(* A caller of syncDriveNow: its position, the locals of the pass, and a  *)
(* log of what the call did (reqs: the requests sent, imports: the texts  *)
(* given to importData, listOutcome, dlOutcome: how the list and download *)
(* requests ended).                                                       *)
IdleCall ==
  [pc |-> "idle", cfg |-> BlankConfig, accessToken |-> "", localJson |-> NullText,
   fileId |-> NoFile, remoteJson |-> NullText, upJson |-> NullText, branch |-> "",
   reqs |-> <<>>, imports |-> <<>>, listOutcome |-> "", dlOutcome |-> ""]

(* The call returns its result *)
Done(c, result) ==
  /\ call' = [call EXCEPT ![c] = IdleCall]
  /\ outcome' = result

Callers == {"timer", "ipc"}

(* No call of the store has returned yet *)
NoAnswer == [op |-> "none"]

(* An authorization attempt (a call of startDriveAuth): flow is the       *)
(* position of the listen callback (the prompt, then the 5-minute         *)
(* timeout), srv the loopback server, closes the number of calls of       *)
(* server.close(), exch the exchange of the code, first the first of the  *)
(* four events that fired, resolves the number of calls of resolve() and  *)
(* result the value the promise took.                                     *)
MaxAttempts == 2

Attempts == 1 .. MaxAttempts

NoAttempt ==
  [flow |-> "none", srv |-> "none", closes |-> 0, exch |-> "none",
   first |-> "", resolves |-> 0, result |-> ""]

BodyPcs == {"refreshing", "listing", "creating", "downloading", "uploading"}

InBody(c) == call[c].pc \in BodyPcs

---------------------------------------------------------------------------
(* Environment: the clock, the renderer's play events, another machine    *)
(* writing the same remote file                                           *)

(* A play starts at its own millisecond: no log holds it already *)
NotIn(r, records) ==
  \A i \in 1 .. Len(records) : Identity(records[i]) # Identity(r)

Tick ==
  /\ now < MaxTime
  /\ now' = now + 1
  /\ UNCHANGED <<storeVars, syncVars>>

(* ipcMain handler ADD_RECORD: addPlayRecord, then updateStreak *)
AddRecord(r) ==
  /\ Len(data.playRecords) < MaxRecords
  /\ NotIn(r, data.playRecords)
  /\ data' = updateStreak(addPlayRecord(data, r), r.timestamp)
  /\ isDirty' = TRUE
  /\ UNCHANGED <<now, disk, diskOk, writes, answer, syncVars>>

(* Another installation, whose document is the remote bundle plus one new *)
(* play, uploads its export; d is its clock.                              *)
RemoteAppend(f, r, d) ==
  /\ IsJson(remote[f])
  /\ Len(remote[f].value.playRecords) < MaxRecords
  /\ NotIn(r, remote[f].value.playRecords)
  /\ LET b == remote[f].value
         nd == updateStreak(addPlayRecord(DataOf(b), r), r.timestamp)
     IN remote' = [remote EXCEPT ![f] = exportData(nd, d)]
  /\ UNCHANGED <<now, storeVars, config, session, isSyncing, lifeVars, call,
                 outcome, passes>>

(* The remote file is deleted (by the user, or by the provider) *)
RemoteDelete(f) ==
  /\ Exists(f)
  /\ remote' = [remote EXCEPT ![f] = Deleted]
  /\ UNCHANGED <<now, storeVars, config, session, isSyncing, lifeVars, call,
                 outcome, passes>>

---------------------------------------------------------------------------
(* syncDriveNow.  A step of a pass runs from one network request to the   *)
(* next: the code between two requests has no other suspension than       *)
(* setConfig and the write of the local file, which are taken to complete *)
(* within the step.                                                       *)

(* Precheck without the test of the in-flight flag *)
PrecheckNoFlag(cfg, syncing, sess) ==
  IF ~cfg.cloudSyncEnabled THEN "Cloud sync is disabled."
  ELSE IF cfg.cloudSyncClientId = "" THEN "Connect Google Drive first."
  ELSE IF cfg.cloudSyncRefreshToken = "" /\ cfg.cloudSyncAccessToken = ""
            /\ sess.accessToken = ""
    THEN "Connect Google Drive first."
  ELSE ""

(* Precheck without the test for a credential *)
PrecheckNoCredential(cfg, syncing, sess) ==
  IF syncing THEN "Sync already in progress."
  ELSE IF ~cfg.cloudSyncEnabled THEN "Cloud sync is disabled."
  ELSE IF cfg.cloudSyncClientId = "" THEN "Connect Google Drive first."
  ELSE ""

(* The checks before the in-flight flag is set: the message of the early  *)
(* return, or "" when the pass goes on.                                   *)
Precheck(cfg, syncing, sess) ==
  IF syncing THEN "Sync already in progress."
  ELSE IF ~cfg.cloudSyncEnabled THEN "Cloud sync is disabled."
  ELSE IF cfg.cloudSyncClientId = "" THEN "Connect Google Drive first."
  ELSE IF cfg.cloudSyncRefreshToken = "" /\ cfg.cloudSyncAccessToken = ""
            /\ sess.accessToken = ""
    THEN "Connect Google Drive first."
  ELSE ""

(* Reject that also records the message as cloudSyncLastError *)
RejectRecording(c, message) ==
  /\ Done(c, Result(FALSE, message, ""))
  /\ config' = [config EXCEPT !.cloudSyncLastError = message]
  /\ UNCHANGED <<session, isSyncing, storeVars, remote, passes>>

(* return { ok: false, message } before the try block *)
Reject(c, message) ==
  /\ Done(c, Result(FALSE, message, ""))
  /\ UNCHANGED <<config, session, isSyncing, storeVars, remote, passes>>

(* Catch that does not record the message *)
CatchSilent(c, cr, message) ==
  /\ UNCHANGED config
  /\ isSyncing' = FALSE
  /\ Done(c, Result(FALSE, "Cloud sync failed.", message))

(* Catch without the finally block: the flag stays set *)
CatchNoFinally(c, cr, message) ==
  /\ config' = [config EXCEPT !.cloudSyncLastError =
                   IF message = "" THEN "Unknown sync error" ELSE message]
  /\ UNCHANGED isSyncing
  /\ Done(c, Result(FALSE, "Cloud sync failed.", message))

(* catch: the message goes to cloudSyncLastError; finally: the flag is    *)
(* cleared.  cr is the caller's record at the throw.                      *)
Catch(c, cr, message) ==
  /\ config' = [config EXCEPT !.cloudSyncLastError =
                   IF message = "" THEN "Unknown sync error" ELSE message]
  /\ isSyncing' = FALSE
  /\ Done(c, Result(FALSE, "Cloud sync failed.", message))

(* A successful end of the pass: setConfig on cfgNow, the configuration   *)
(* with the fields only this branch sets; then return and finally         *)
Finish(c, cr, cfgNow, hash, message) ==
  /\ config' = [cfgNow EXCEPT !.cloudSyncLastSyncTime = now,
                              !.cloudSyncLastHash = hash,
                              !.cloudSyncLastError = ""]
  /\ isSyncing' = FALSE
  /\ Done(c, Result(TRUE, message, ""))

(* exportData, hashString, and the first request to the store: the list   *)
(* query when no file id is cached, the download otherwise                *)
ExportAndLocate(c, cr) ==
  LET fid == cr.cfg.cloudSyncFileId
  IN /\ call' = [call EXCEPT ![c] =
       [cr EXCEPT !.localJson = exportData(data, now),
                  !.fileId = fid,
                  !.pc = IF fid = NoFile THEN "listing" ELSE "downloading",
                  !.reqs = Append(@, IF fid = NoFile THEN "list" ELSE "download")]]
     /\ UNCHANGED outcome

---------------------------------------------------------------------------
(* ensureAccessToken *)

ExpiresInValues == {3}

(* Fresh without the 60000 ms margin *)
FreshNoMargin(expiry, t) == expiry > t

Fresh(expiry, t) == expiry > t + SKEW

(* The cached token ensureAccessToken returns without a request, or "" *)
CachedToken(cfg, sess, t) ==
  IF cfg.cloudSyncAccessToken # "" /\ cfg.cloudSyncAccessTokenExpiry # 0
       /\ Fresh(cfg.cloudSyncAccessTokenExpiry, t)
    THEN cfg.cloudSyncAccessToken
  ELSE IF sess.accessToken # "" /\ Fresh(sess.accessTokenExpiry, t)
    THEN sess.accessToken
  ELSE ""

(* MissingRefreshToken without the test of the two refresh tokens *)
MissingClientIdOnly(cfg, sess) == cfg.cloudSyncClientId = ""

MissingRefreshToken(cfg, sess) ==
  \/ cfg.cloudSyncClientId = ""
  \/ cfg.cloudSyncRefreshToken = "" /\ sess.refreshToken = ""

(* The pass from the flag to its first request *)
Begin(c, cr) ==
  LET tok == CachedToken(cr.cfg, session, now)
  IN /\ IF tok # ""
          THEN /\ ExportAndLocate(c, [cr EXCEPT !.accessToken = tok])
               /\ isSyncing' = TRUE
               /\ UNCHANGED config
        ELSE IF MissingRefreshToken(cr.cfg, session)
          THEN Catch(c, cr, "Missing refresh token. Reconnect Google Drive.")
        ELSE /\ call' = [call EXCEPT ![c] =
                  [cr EXCEPT !.pc = "refreshing", !.reqs = Append(@, "token")]]
             /\ isSyncing' = TRUE
             /\ UNCHANGED <<config, outcome>>
     /\ passes' = passes + 1
     /\ UNCHANGED <<session, storeVars, remote>>

(* A call of syncDriveNow: the handler of DRIVE_SYNC, and the callback of *)
(* the 10-minute timer, read the configuration and call syncDriveNow.     *)
Invoke(c) ==
  /\ call[c].pc = "idle"
  /\ c = "timer" => syncTimer
  /\ LET message == Precheck(config, isSyncing, session)
     IN IF message # ""
          THEN Reject(c, message)
          ELSE /\ passes < MaxPasses
               /\ Begin(c, [call[c] EXCEPT !.cfg = config])
  /\ UNCHANGED <<now, lifeVars>>

(* TokenResponse that hands on the token of the configuration read at     *)
(* the call instead of the new one                                        *)
TokenResponseOld(c) ==
  /\ call[c].pc = "refreshing"
  /\ \/ /\ Catch(c, call[c], "Failed to refresh Google token.")
        /\ UNCHANGED session
     \/ \E e \in ExpiresInValues :
          /\ session' = [session EXCEPT !.accessToken = "at1",
                                        !.accessTokenExpiry = now + e - SKEW]
          /\ config' = [config EXCEPT !.cloudSyncAccessToken = "at1",
                                      !.cloudSyncAccessTokenExpiry = now + e - SKEW,
                                      !.cloudSyncLastError = ""]
          /\ ExportAndLocate(c, [call[c] EXCEPT
                                   !.accessToken = call[c].cfg.cloudSyncAccessToken])
          /\ UNCHANGED isSyncing
  /\ UNCHANGED <<now, storeVars, lifeVars, remote, passes>>

(* TokenResponse that keeps the new token in the session only *)
TokenResponseSessionOnly(c) ==
  /\ call[c].pc = "refreshing"
  /\ \/ /\ Catch(c, call[c], "Failed to refresh Google token.")
        /\ UNCHANGED session
     \/ \E e \in ExpiresInValues :
          /\ session' = [session EXCEPT !.accessToken = "at1",
                                        !.accessTokenExpiry = now + e - SKEW]
          /\ config' = [config EXCEPT !.cloudSyncLastError = ""]
          /\ ExportAndLocate(c, [call[c] EXCEPT !.accessToken = "at1"])
          /\ UNCHANGED isSyncing
  /\ UNCHANGED <<now, storeVars, lifeVars, remote, passes>>

(* The token endpoint answers the refresh exchange *)
TokenResponse(c) ==
  /\ call[c].pc = "refreshing"
  /\ \/ /\ Catch(c, call[c], "Failed to refresh Google token.")
        /\ UNCHANGED session
     \/ \E e \in ExpiresInValues :
          /\ session' = [session EXCEPT !.accessToken = "at1",
                                        !.accessTokenExpiry = now + e - SKEW]
          /\ config' = [config EXCEPT !.cloudSyncAccessToken = "at1",
                                      !.cloudSyncAccessTokenExpiry = now + e - SKEW,
                                      !.cloudSyncLastError = ""]
          /\ ExportAndLocate(c, [call[c] EXCEPT !.accessToken = "at1"])
          /\ UNCHANGED isSyncing
  /\ UNCHANGED <<now, storeVars, lifeVars, remote, passes>>

---------------------------------------------------------------------------
(* syncDriveNow: the answers of the store *)

(* findDriveFile answers; then createDriveFile or downloadDriveFile is sent *)
AfterList(c, how, found) ==
  /\ call' = [call EXCEPT
        ![c].listOutcome = how,
        ![c].fileId = found,
        ![c].pc = IF found = NoFile THEN "creating" ELSE "downloading",
        ![c].reqs = Append(@, IF found = NoFile THEN "create" ELSE "download")]
  /\ UNCHANGED <<config, isSyncing, outcome>>

ListResponse(c) ==
  /\ call[c].pc = "listing"
  /\ \/ Catch(c, call[c], "net::ERR_FAILED")
     \/ AfterList(c, "notok", NoFile)
     \/ /\ \A f \in FileIds : ~Exists(f)
        /\ AfterList(c, "none", NoFile)
     \/ \E f \in FileIds : Exists(f) /\ AfterList(c, "found", f)
  /\ UNCHANGED <<now, storeVars, session, lifeVars, remote, passes>>

(* The id the store gives a new file: one never used before *)
NewFileId(f) ==
  /\ remote[f] = Unused
  /\ \A g \in FileIds : remote[g] = Unused => f <= g

(* CreateResponse that does not persist the id of the new file *)
CreateResponseNoId(c) ==
  /\ call[c].pc = "creating"
  /\ \/ /\ Catch(c, call[c], "Failed to create Drive file.")
        /\ UNCHANGED remote
     \/ \E f \in FileIds :
          /\ NewFileId(f)
          /\ remote' = [remote EXCEPT ![f] = call[c].localJson]
          /\ Finish(c, [call[c] EXCEPT !.branch = "create"], config,
                    hashString(call[c].localJson), "Cloud sync initialized.")
  /\ UNCHANGED <<now, storeVars, session, lifeVars, passes>>

CreateResponse(c) ==
  /\ call[c].pc = "creating"
  /\ \/ /\ Catch(c, call[c], "Failed to create Drive file.")
        /\ UNCHANGED remote
     \/ \E f \in FileIds :
          /\ NewFileId(f)
          /\ remote' = [remote EXCEPT ![f] = call[c].localJson]
          /\ Finish(c, [call[c] EXCEPT !.branch = "create"],
                    [config EXCEPT !.cloudSyncFileId = f],
                    hashString(call[c].localJson), "Cloud sync initialized.")
  /\ UNCHANGED <<now, storeVars, session, lifeVars, passes>>

(* importData: the four fields replace the document, markDirty, save (a   *)
(* failed write is logged and leaves the dirty flag set)                  *)
importData(t) ==
  /\ data' = importedData(t)
  /\ disk' = IF diskOk THEN importedData(t) ELSE disk
  /\ isDirty' = ~diskOk
  /\ UNCHANGED <<diskOk, writes, answer>>

(* Classify without the test for equal hashes *)
ClassifyNoEqual(cfg, localJson, remoteJson) ==
  LET localHash == hashString(localJson)
      remoteHash == hashString(remoteJson)
      lastSyncHash == cfg.cloudSyncLastHash
      localChanged == lastSyncHash # NoHash /\ localHash # lastSyncHash
      remoteChanged == lastSyncHash # NoHash /\ remoteHash # lastSyncHash
  IN IF localChanged /\ remoteChanged THEN "merge"
     ELSE IF parseExport(remoteJson).exportDate > parseExport(localJson).exportDate
       THEN "pull"
     ELSE "push"

(* The decision once the remote text is there *)
Classify(cfg, localJson, remoteJson) ==
  LET localHash == hashString(localJson)
      remoteHash == hashString(remoteJson)
      lastSyncHash == cfg.cloudSyncLastHash
      localChanged == lastSyncHash # NoHash /\ localHash # lastSyncHash
      remoteChanged == lastSyncHash # NoHash /\ remoteHash # lastSyncHash
  IN IF remoteHash = localHash THEN "uptodate"
     ELSE IF localChanged /\ remoteChanged THEN "merge"
     ELSE IF parseExport(remoteJson).exportDate > parseExport(localJson).exportDate
       THEN "pull"
     ELSE "push"

SendUpload(c, cr, text, branch) ==
  /\ call' = [call EXCEPT ![c] =
        [cr EXCEPT !.pc = "uploading", !.upJson = text, !.branch = branch,
                   !.reqs = Append(@, "upload")]]
  /\ UNCHANGED <<config, isSyncing, outcome>>

(* downloadDriveFile returned the text: the branches up to the next       *)
(* request or to the end of the pass                                      *)
AfterDownload(c, cr) ==
  LET kind == Classify(cr.cfg, cr.localJson, cr.remoteJson)
      merged == Json(mergeExports(parseExport(cr.localJson),
                                  parseExport(cr.remoteJson), now))
  IN CASE kind = "uptodate" ->
            /\ Finish(c, [cr EXCEPT !.branch = "uptodate"], config,
                      hashString(cr.localJson), "Cloud sync up to date.")
            /\ UNCHANGED storeVars
       [] kind = "merge" ->
            /\ importData(merged)
            /\ SendUpload(c, [cr EXCEPT !.imports = Append(@, merged)],
                          merged, "merge")
       [] kind = "pull" ->
            IF IsJson(cr.remoteJson)
              THEN /\ importData(cr.remoteJson)
                   /\ Finish(c, [cr EXCEPT !.branch = "pull",
                                           !.imports = Append(@, cr.remoteJson)],
                             config, hashString(cr.remoteJson),
                             "Cloud sync pulled updates.")
              ELSE /\ Catch(c, cr, "Unexpected token in JSON")
                   /\ UNCHANGED storeVars
       [] kind = "push" ->
            /\ SendUpload(c, cr, cr.localJson, "push")
            /\ UNCHANGED storeVars

DownloadResponse(c) ==
  /\ call[c].pc = "downloading"
  /\ \/ /\ Catch(c, call[c], "net::ERR_FAILED")
        /\ UNCHANGED storeVars
     \/ /\ ~Exists(call[c].fileId)
        /\ SendUpload(c, [call[c] EXCEPT !.dlOutcome = "missing"],
                      call[c].localJson, "gone")
        /\ UNCHANGED storeVars
     \/ /\ Exists(call[c].fileId)
        /\ SendUpload(c, [call[c] EXCEPT !.dlOutcome = "notok"],
                      call[c].localJson, "gone")
        /\ UNCHANGED storeVars
     \/ /\ Exists(call[c].fileId)
        /\ remote[call[c].fileId] # EmptyText
        /\ AfterDownload(c, [call[c] EXCEPT !.dlOutcome = "ok",
                                 !.remoteJson = remote[call[c].fileId]])
  /\ UNCHANGED <<now, session, lifeVars, remote, passes>>

DoneMessage(branch) ==
  IF branch = "merge" THEN "Cloud sync merged changes."
  ELSE IF branch = "push" THEN "Cloud sync pushed updates."
  ELSE "Cloud sync updated."

(* uploadDriveFile answers: the PATCH of a file that does not exist fails *)
UploadResponse(c) ==
  /\ call[c].pc = "uploading"
  /\ \/ /\ Catch(c, call[c], "Failed to upload Drive file.")
        /\ UNCHANGED remote
     \/ /\ Exists(call[c].fileId)
        /\ remote' = [remote EXCEPT ![call[c].fileId] = call[c].upJson]
        /\ Finish(c, call[c], config, hashString(call[c].upJson),
                  DoneMessage(call[c].branch))
  /\ UNCHANGED <<now, storeVars, session, lifeVars, passes>>

---------------------------------------------------------------------------
(* The specification of the reconciliation pass *)

InitConfigs ==
  { [BlankConfig EXCEPT !.cloudSyncEnabled = e, !.cloudSyncClientId = id,
                        !.cloudSyncRefreshToken = cred[1],
                        !.cloudSyncAccessToken = cred[2],
                        !.cloudSyncAccessTokenExpiry = cred[3]] :
      e \in BOOLEAN, id \in {"", "client"},
      cred \in {<<"", "", 0>>, <<"rt", "", 0>>, <<"", "at0", 2>>} }

InitRemotes ==
  { [f \in FileIds |-> Unused],
    [f \in FileIds |->
       IF f = 1 THEN exportData(updateStreak(addPlayRecord(EmptyData, RecZ),
                                             RecZ.timestamp), 1)
       ELSE Unused] }

Init ==
  /\ now = 0
  /\ config \in InitConfigs
  /\ session = NoSession
  /\ isSyncing = FALSE
  /\ syncTimer = config.cloudSyncEnabled
  /\ data = EmptyData
  /\ isDirty = FALSE
  /\ disk = EmptyData
  /\ diskOk = TRUE
  /\ remote \in InitRemotes
  /\ call = [c \in Callers |-> IdleCall]
  /\ outcome = NoResult
  /\ passes = 0
  /\ writes = {}
  /\ answer = NoAnswer
  /\ timers = IF config.cloudSyncEnabled THEN 1 ELSE 0
  /\ backend = "running"
  /\ auth = [a \in Attempts |-> NoAttempt]

Next ==
  \/ Tick
  \/ \E r \in Plays : AddRecord(r)
  \/ \E f \in FileIds, r \in RemotePlays, d \in 0 .. MaxTime : RemoteAppend(f, r, d)
  \/ \E f \in FileIds : RemoteDelete(f)
  \/ \E c \in Callers :
        \/ Invoke(c)
        \/ TokenResponse(c)
        \/ ListResponse(c)
        \/ CreateResponse(c)
        \/ DownloadResponse(c)
        \/ UploadResponse(c)

Spec == Init /\ [][Next]_vars

(* A request that was sent is answered: the network and the disk calls of *)
(* a pass return                                                          *)
Answered(c) ==
  \/ TokenResponse(c)
  \/ ListResponse(c)
  \/ CreateResponse(c)
  \/ DownloadResponse(c)
  \/ UploadResponse(c)

FairSpec == Spec /\ \A c \in Callers : WF_vars(Answered(c))

---------------------------------------------------------------------------
(* The specification of the token cache: passes that start from every     *)
(* state of the persisted and the session credentials that authorization, *)
(* refresh and disconnect leave behind, against an empty store.           *)

MaxExpiry == 3

TokenConfigs ==
  { [BlankConfig EXCEPT !.cloudSyncEnabled = TRUE, !.cloudSyncClientId = "client",
                        !.cloudSyncRefreshToken = rt,
                        !.cloudSyncAccessToken = tok[1],
                        !.cloudSyncAccessTokenExpiry = tok[2]] :
      rt \in {"", "rt"},
      tok \in {<<"", 0>>} \cup ({"at0"} \X (1 .. MaxExpiry)) }

TokenSessions ==
  { [accessToken |-> tok[1], accessTokenExpiry |-> tok[2], refreshToken |-> rt] :
      tok \in {<<"", 0>>} \cup ({"at2"} \X (1 .. MaxExpiry)),
      rt \in {"", "srt"} }

TokenInit ==
  /\ now = 0
  /\ config \in TokenConfigs
  /\ session \in TokenSessions
  /\ isSyncing = FALSE
  /\ syncTimer = TRUE
  /\ data = EmptyData
  /\ isDirty = FALSE
  /\ disk = EmptyData
  /\ diskOk = TRUE
  /\ remote = [f \in FileIds |-> Unused]
  /\ call = [c \in Callers |-> IdleCall]
  /\ outcome = NoResult
  /\ passes = 0
  /\ writes = {}
  /\ answer = NoAnswer
  /\ timers = 1
  /\ backend = "running"
  /\ auth = [a \in Attempts |-> NoAttempt]

TokenNext ==
  \/ Tick
  \/ \E c \in Callers :
        \/ Invoke(c)
        \/ TokenResponse(c)
        \/ ListResponse(c)
        \/ CreateResponse(c)
        \/ DownloadResponse(c)
        \/ UploadResponse(c)

TokenSpec == TokenInit /\ [][TokenNext]_vars

---------------------------------------------------------------------------
(* The life of the backend: plugin start and stop, the cloud sync switch, *)
(* disconnect, and the interactive authorization of startDriveAuth.       *)

MaxTimers == 2

(* What the authorization and the timer code leave alone *)
passVars == <<now, isSyncing, storeVars, remote, call, outcome, passes>>

(* resolve of the promise of startDriveAuth: only the first call settles it *)
resolve(at, message) ==
  [at EXCEPT !.resolves = @ + 1,
             !.result = IF at.resolves = 0 THEN message ELSE @]

(* server.close() *)
serverClose(at) == [at EXCEPT !.srv = "closed", !.closes = @ + 1]

(* The first of the events of an attempt *)
Event(at, e) == [at EXCEPT !.first = IF @ = "" THEN e ELSE @]

(* startSyncTimer and stopSyncTimer of the running instance *)
startSyncTimer ==
  IF syncTimer THEN UNCHANGED <<syncTimer, timers>>
  ELSE syncTimer' = TRUE /\ timers' = timers + 1

stopSyncTimer ==
  IF syncTimer THEN syncTimer' = FALSE /\ timers' = timers - 1
  ELSE UNCHANGED <<syncTimer, timers>>

(* backend.start: a new StatsBackend and its initialize *)
Start ==
  /\ backend = "stopped"
  /\ timers < MaxTimers
  /\ backend' = "running"
  /\ IF config.cloudSyncEnabled
       THEN syncTimer' = TRUE /\ timers' = timers + 1
       ELSE syncTimer' = FALSE /\ UNCHANGED timers
  /\ UNCHANGED <<config, session, auth, passVars>>

(* backend.stop: cleanup of the instance, which is then dropped; taken    *)
(* with no authorization attempt of the instance under way                *)
Stop ==
  /\ backend = "running"
  /\ \A a \in Attempts : /\ auth[a].flow \in {"none", "fired", "end"}
                         /\ auth[a].exch # "pending"
  /\ backend' = "stopped"
  /\ syncTimer' = FALSE
  /\ UNCHANGED <<timers, config, session, auth, passVars>>

(* The cloud sync switch of the menu, delivered through onConfigChange *)
SetEnabled(e) ==
  /\ backend = "running"
  /\ e # config.cloudSyncEnabled
  /\ config' = [config EXCEPT !.cloudSyncEnabled = e]
  /\ IF e THEN startSyncTimer ELSE stopSyncTimer
  /\ UNCHANGED <<backend, session, auth, passVars>>

(* The handler of DRIVE_DISCONNECT *)
Disconnect ==
  /\ backend = "running"
  /\ config' = [config EXCEPT !.cloudSyncEnabled = FALSE,
                              !.cloudSyncRefreshToken = "",
                              !.cloudSyncAccessToken = "",
                              !.cloudSyncAccessTokenExpiry = 0,
                              !.cloudSyncFileId = NoFile,
                              !.cloudSyncLastHash = NoHash,
                              !.cloudSyncLastSyncTime = -1,
                              !.cloudSyncLastError = ""]
  /\ stopSyncTimer
  /\ UNCHANGED <<backend, session, auth, passVars>>

(* The handler of DRIVE_CONNECT calls startDriveAuth, which creates the   *)
(* server and calls listen                                                *)
Connect(a) ==
  /\ backend = "running"
  /\ auth[a].flow = "none"
  /\ auth' = [auth EXCEPT ![a] =
        IF config.cloudSyncClientId = ""
          THEN resolve([@ EXCEPT !.flow = "end"], "Missing Google OAuth Client ID.")
          ELSE [@ EXCEPT !.flow = "starting", !.srv = "open"]]
  /\ UNCHANGED <<config, session, syncTimer, timers, backend, passVars>>

(* The callback of server.listen, up to the prompt *)
Listening(a, port) ==
  /\ auth[a].flow = "starting"
  /\ auth' = [auth EXCEPT ![a] =
        IF ~port
          THEN resolve(serverClose([@ EXCEPT !.flow = "end"]),
                       "Failed to start local callback server.")
          ELSE [@ EXCEPT !.flow = "prompt"]]
  /\ UNCHANGED <<config, session, syncTimer, timers, backend, passVars>>

(* The answer to the prompt: Cancel, or Open Google, which opens the      *)
(* browser and sets the 5-minute timeout                                  *)
PromptAnswer(a, cancel) ==
  /\ auth[a].flow = "prompt"
  /\ IF cancel
       THEN /\ auth' = [auth EXCEPT ![a] =
                  resolve(serverClose(Event([@ EXCEPT !.flow = "end"], "cancel")),
                          "Google authorization cancelled.")]
            /\ config' = [config EXCEPT
                  !.cloudSyncLastError = "Google authorization cancelled."]
       ELSE /\ auth' = [auth EXCEPT ![a].flow = "armed"]
            /\ UNCHANGED config
  /\ UNCHANGED <<session, syncTimer, timers, backend, passVars>>

(* The request handler of the server: the browser is redirected to        *)
(* /oauth2callback with a code, or with an error or without a code        *)
Callback(a, kind) ==
  /\ auth[a].flow = "armed"
  /\ auth[a].srv = "open"
  /\ auth' = [auth EXCEPT ![a] =
        IF kind = "code"
          THEN serverClose(Event([@ EXCEPT !.exch = "pending"], "code"))
          ELSE resolve(serverClose(Event(@, "error")),
                       "Google authorization was cancelled or failed.")]
  /\ UNCHANGED <<config, session, syncTimer, timers, backend, passVars>>

(* ExchangeResponse that stores nothing when no refresh token comes *)
ExchangeResponseStrict(a) ==
  /\ auth[a].exch = "pending"
  /\ \/ /\ config' = [config EXCEPT
              !.cloudSyncLastError = "Failed to exchange token."]
        /\ auth' = [auth EXCEPT ![a] =
              resolve([@ EXCEPT !.exch = "notok"], "Failed to exchange token.")]
        /\ UNCHANGED <<session, syncTimer, timers>>
     \/ \E e \in ExpiresInValues :
          /\ UNCHANGED session
          /\ config' = [config EXCEPT
                !.cloudSyncLastError = "No refresh token returned."]
          /\ auth' = [auth EXCEPT ![a] =
                resolve([@ EXCEPT !.exch = "norefresh"],
                        "Logged in without refresh token.")]
          /\ UNCHANGED <<syncTimer, timers>>
     \/ \E e \in ExpiresInValues :
          /\ session' = [accessToken |-> "at2",
                         accessTokenExpiry |-> now + e - SKEW,
                         refreshToken |-> "srt"]
          /\ config' = [config EXCEPT
                !.cloudSyncEnabled = TRUE,
                !.cloudSyncRefreshToken = "srt",
                !.cloudSyncAccessToken = "at2",
                !.cloudSyncAccessTokenExpiry = now + e - SKEW,
                !.cloudSyncLastError = ""]
          /\ startSyncTimer
          /\ auth' = [auth EXCEPT ![a] =
                resolve([@ EXCEPT !.exch = "ok"], "Google Drive connected.")]
     \/ /\ config' = [config EXCEPT
              !.cloudSyncLastError = "Google authorization failed."]
        /\ auth' = [auth EXCEPT ![a] =
              resolve([@ EXCEPT !.exch = "threw"], "Google authorization failed.")]
        /\ UNCHANGED <<session, syncTimer, timers>>
  /\ UNCHANGED <<backend, passVars>>

(* The token endpoint answers the exchange of the code; exch keeps how *)
ExchangeResponse(a) ==
  /\ auth[a].exch = "pending"
  /\ \/ /\ config' = [config EXCEPT
              !.cloudSyncLastError = "Failed to exchange token."]
        /\ auth' = [auth EXCEPT ![a] =
              resolve([@ EXCEPT !.exch = "notok"], "Failed to exchange token.")]
        /\ UNCHANGED <<session, syncTimer, timers>>
     \/ \E e \in ExpiresInValues :
          /\ session' = [accessToken |-> "at2",
                         accessTokenExpiry |-> now + e - SKEW,
                         refreshToken |-> ""]
          /\ config' = [config EXCEPT
                !.cloudSyncEnabled = TRUE,
                !.cloudSyncAccessToken = "at2",
                !.cloudSyncAccessTokenExpiry = now + e - SKEW,
                !.cloudSyncLastError = "No refresh token returned."]
          /\ auth' = [auth EXCEPT ![a] =
                resolve([@ EXCEPT !.exch = "norefresh"],
                        "Logged in without refresh token.")]
          /\ UNCHANGED <<syncTimer, timers>>
     \/ \E e \in ExpiresInValues :
          /\ session' = [accessToken |-> "at2",
                         accessTokenExpiry |-> now + e - SKEW,
                         refreshToken |-> "srt"]
          /\ config' = [config EXCEPT
                !.cloudSyncEnabled = TRUE,
                !.cloudSyncRefreshToken = "srt",
                !.cloudSyncAccessToken = "at2",
                !.cloudSyncAccessTokenExpiry = now + e - SKEW,
                !.cloudSyncLastError = ""]
          /\ startSyncTimer
          /\ auth' = [auth EXCEPT ![a] =
                resolve([@ EXCEPT !.exch = "ok"], "Google Drive connected.")]
     \/ /\ config' = [config EXCEPT
              !.cloudSyncLastError = "Google authorization failed."]
        /\ auth' = [auth EXCEPT ![a] =
              resolve([@ EXCEPT !.exch = "threw"], "Google authorization failed.")]
        /\ UNCHANGED <<session, syncTimer, timers>>
  /\ UNCHANGED <<backend, passVars>>

(* The callback of the 5-minute timeout, which nothing clears *)
Timeout(a) ==
  /\ auth[a].flow = "armed"
  /\ auth' = [auth EXCEPT ![a] =
        resolve(serverClose(Event([@ EXCEPT !.flow = "fired"], "timeout")),
                "Google authorization timed out.")]
  /\ config' = [config EXCEPT
        !.cloudSyncLastError = "Google authorization timed out."]
  /\ UNCHANGED <<session, syncTimer, timers, backend, passVars>>

LifeInit ==
  /\ now = 0
  /\ config \in InitConfigs
  /\ session = NoSession
  /\ isSyncing = FALSE
  /\ syncTimer = config.cloudSyncEnabled
  /\ data = EmptyData
  /\ isDirty = FALSE
  /\ disk = EmptyData
  /\ diskOk = TRUE
  /\ remote = [f \in FileIds |-> Unused]
  /\ call = [c \in Callers |-> IdleCall]
  /\ outcome = NoResult
  /\ passes = 0
  /\ writes = {}
  /\ answer = NoAnswer
  /\ timers = IF config.cloudSyncEnabled THEN 1 ELSE 0
  /\ backend = "running"
  /\ auth = [a \in Attempts |-> NoAttempt]

LifeNext ==
  \/ Start
  \/ Stop
  \/ \E e \in BOOLEAN : SetEnabled(e)
  \/ Disconnect
  \/ \E a \in Attempts :
        \/ Connect(a)
        \/ \E port \in BOOLEAN : Listening(a, port)
        \/ \E cancel \in BOOLEAN : PromptAnswer(a, cancel)
        \/ \E kind \in {"code", "error"} : Callback(a, kind)
        \/ ExchangeResponse(a)
        \/ Timeout(a)

LifeSpec == LifeInit /\ [][LifeNext]_vars

---------------------------------------------------------------------------
(* Disconnect and what follows it: the backend as a successful            *)
(* authorization leaves it, then the menu (disconnect, the cloud sync     *)
(* switch) and passes, with no further authorization.                     *)

ConnectedInit ==
  /\ now = 0
  /\ \E e \in ExpiresInValues :
        /\ session = [accessToken |-> "at2", accessTokenExpiry |-> e - SKEW,
                      refreshToken |-> "srt"]
        /\ config = [BlankConfig EXCEPT
              !.cloudSyncEnabled = TRUE,
              !.cloudSyncClientId = "client",
              !.cloudSyncRefreshToken = "srt",
              !.cloudSyncAccessToken = "at2",
              !.cloudSyncAccessTokenExpiry = e - SKEW]
  /\ isSyncing = FALSE
  /\ syncTimer = TRUE
  /\ data = EmptyData
  /\ isDirty = FALSE
  /\ disk = EmptyData
  /\ diskOk = TRUE
  /\ remote = [f \in FileIds |-> Unused]
  /\ call = [c \in Callers |-> IdleCall]
  /\ outcome = NoResult
  /\ passes = 0
  /\ writes = {}
  /\ answer = NoAnswer
  /\ timers = 1
  /\ backend = "running"
  /\ auth = [a \in Attempts |-> NoAttempt]

ConnectedNext ==
  \/ Tick
  \/ Disconnect
  \/ \E e \in BOOLEAN : SetEnabled(e)
  \/ \E c \in Callers :
        \/ Invoke(c)
        \/ TokenResponse(c)
        \/ ListResponse(c)
        \/ CreateResponse(c)
        \/ DownloadResponse(c)
        \/ UploadResponse(c)

ConnectedSpec == ConnectedInit /\ [][ConnectedNext]_vars

---------------------------------------------------------------------------
(* The store by itself: appends, imports, queries, and the save timer     *)
(* with its writes of the file, which take time and can fail.             *)

MaxWrites == 2

(* An argument that is not given (undefined) *)
Undefined == -1

QueryBounds == {Undefined, 0, 1, 1440}

(* The texts given to IMPORT: the export of another installation, a file  *)
(* with the records only, and texts that JSON.parse or the field access   *)
(* rejects                                                                *)
ImportTexts ==
  { exportData(updateStreak(addPlayRecord(EmptyData, RecZ), RecZ.timestamp), 1),
    Json([version |-> 1, playRecords |-> <<WithId(RecY, 1)>>]),
    Garbage, NullText }

(* Place r behind the records that are not older: Array.prototype.sort is *)
(* stable                                                                 *)
RECURSIVE InsertDesc(_, _)
InsertDesc(sorted, r) ==
  IF sorted = <<>> THEN <<r>>
  ELSE IF sorted[1].timestamp >= r.timestamp
    THEN <<sorted[1]>> \o InsertDesc(Tail(sorted), r)
  ELSE <<r>> \o sorted

RECURSIVE SortDesc(_)
SortDesc(records) ==
  IF records = <<>> THEN <<>>
  ELSE InsertDesc(SortDesc(SubSeq(records, 1, Len(records) - 1)),
                  records[Len(records)])

(* if (x): undefined and 0 are both false *)
Truthy(x) == x # Undefined /\ x # 0

InRange(r, startDate, endDate) == r.timestamp >= startDate /\ r.timestamp <= endDate

NotBefore(r, startDate) == r.timestamp >= startDate

getPlayRecords(records, startDate, endDate) ==
  SortDesc(IF Truthy(startDate) /\ Truthy(endDate)
             THEN SelectSeq(records, LAMBDA r : InRange(r, startDate, endDate))
           ELSE IF Truthy(startDate)
             THEN SelectSeq(records, LAMBDA r : NotBefore(r, startDate))
           ELSE records)

(* A caller of getPlayRecords *)
Query(startDate, endDate) ==
  /\ answer' = [op |-> "query", startDate |-> startDate, endDate |-> endDate,
                records |-> getPlayRecords(data.playRecords, startDate, endDate)]
  /\ UNCHANGED <<now, data, isDirty, disk, diskOk, writes, syncVars>>

(* save() up to its awaits of the imports and of mkdir *)
FreeWrites == {n \in 1 .. MaxWrites : \A w \in writes : w.n # n}

BeginSave(from) ==
  /\ FreeWrites # {}
  /\ writes' = writes \cup
       {[n |-> CHOOSE n \in FreeWrites : \A m \in FreeWrites : n <= m,
         from |-> from, stage |-> "begun", snap |-> EmptyData]}

(* The callback of the 30-second save timer, which close() clears *)
FlushTick ==
  /\ backend = "running"
  /\ isDirty
  /\ BeginSave("tick")
  /\ UNCHANGED <<now, data, isDirty, disk, diskOk, answer, syncVars>>

(* The handler of IMPORT: importData up to the await inside save() *)
ImportFile(t) ==
  /\ IF IsJson(t)
       THEN /\ data' = importedData(t)
            /\ isDirty' = TRUE
            /\ BeginSave("import")
            /\ UNCHANGED answer
       ELSE /\ answer' = [op |-> "import", ok |-> FALSE]
            /\ UNCHANGED <<data, isDirty, writes>>
  /\ UNCHANGED <<now, disk, diskOk, syncVars>>

(* save(): JSON.stringify(this.data) and the call of fs.writeFile *)
WriteFile(w) ==
  /\ w.stage = "begun"
  /\ writes' = (writes \ {w}) \cup {[w EXCEPT !.stage = "writing", !.snap = data]}
  /\ UNCHANGED <<now, data, isDirty, disk, diskOk, answer, syncVars>>

(* WriteDone that clears the flag also when the write failed *)
WriteDoneClears(w) ==
  /\ w.stage = "writing"
  /\ writes' = writes \ {w}
  /\ disk' = IF diskOk THEN w.snap ELSE disk
  /\ isDirty' = FALSE
  /\ answer' = IF w.from = "import" THEN [op |-> "import", ok |-> TRUE]
               ELSE IF ~diskOk THEN [op |-> "save", ok |-> FALSE]
               ELSE answer
  /\ UNCHANGED <<now, data, diskOk, syncVars>>

(* fs.writeFile settles: save() clears the flag, or logs the error (kept  *)
(* in answer for a save of the timer); then importData returns            *)
WriteDone(w) ==
  /\ w.stage = "writing"
  /\ writes' = writes \ {w}
  /\ IF diskOk
       THEN disk' = w.snap /\ isDirty' = FALSE
       ELSE UNCHANGED <<disk, isDirty>>
  /\ answer' = IF w.from = "import" THEN [op |-> "import", ok |-> TRUE]
               ELSE IF ~diskOk THEN [op |-> "save", ok |-> FALSE]
               ELSE answer
  /\ UNCHANGED <<now, data, diskOk, syncVars>>

(* The file system starts or stops refusing writes *)
DiskFault ==
  /\ diskOk' = ~diskOk
  /\ UNCHANGED <<now, data, isDirty, disk, writes, answer, syncVars>>

StoreInit ==
  /\ now = 0
  /\ config = BlankConfig
  /\ session = NoSession
  /\ isSyncing = FALSE
  /\ syncTimer = FALSE
  /\ data = EmptyData
  /\ isDirty = FALSE
  /\ disk = EmptyData
  /\ diskOk = TRUE
  /\ remote = [f \in FileIds |-> Unused]
  /\ call = [c \in Callers |-> IdleCall]
  /\ outcome = NoResult
  /\ passes = 0
  /\ writes = {}
  /\ answer = NoAnswer
  /\ timers = 0
  /\ backend = "running"
  /\ auth = [a \in Attempts |-> NoAttempt]

StoreNext ==
  \/ \E r \in Plays : AddRecord(r)
  \/ \E t \in ImportTexts : ImportFile(t)
  \/ FlushTick
  \/ \E w \in writes : WriteFile(w)
  \/ \E w \in writes : WriteDone(w)
  \/ DiskFault

StoreSpec == StoreInit /\ [][StoreNext]_vars

(* The save timer keeps firing, and a write that was started settles *)
FairStoreSpec ==
  /\ StoreSpec
  /\ SF_vars(FlushTick)
  /\ WF_vars(\E w \in writes : WriteFile(w))
  /\ WF_vars(\E w \in writes : WriteDone(w))

(* cleanup() of the backend, that is close() of the store up to the await *)
(* inside save(): the save timer is cleared, and a save begins if the     *)
(* flag is set.  The handlers of the instance stay registered.           *)
Close ==
  /\ backend = "running"
  /\ backend' = "stopped"
  /\ IF isDirty THEN BeginSave("close") ELSE UNCHANGED writes
  /\ UNCHANGED <<now, data, isDirty, disk, diskOk, answer, config, session,
                 isSyncing, syncTimer, timers, auth, remote, call, outcome,
                 passes>>

CloseNext ==
  \/ StoreNext
  \/ Close

CloseSpec == StoreInit /\ [][CloseNext]_vars

(* The queries of a log that grows *)
QueryNext ==
  \/ \E r \in Plays : AddRecord(r)
  \/ \E startDate \in QueryBounds, endDate \in QueryBounds : Query(startDate, endDate)

QuerySpec == StoreInit /\ [][QueryNext]_vars

---------------------------------------------------------------------------
(* The streak over a run of days: plays that arrive in any order of their *)
(* timestamps.                                                            *)

MaxDay == 3
MaxEvents == 4

(* Two moments of each day *)
StreakTimes == {d * DAY + m : d \in 0 .. MaxDay, m \in 0 .. 1}

StreakPlay(timestamp) ==
  [songId |-> "s", artistId |-> "t", timestamp |-> timestamp,
   durationListened |-> 30, totalDuration |-> 200]

(* ipcMain handler ADD_RECORD, for logs of up to max records *)
AddPlay(r, max) ==
  /\ Len(data.playRecords) < max
  /\ NotIn(r, data.playRecords)
  /\ data' = updateStreak(addPlayRecord(data, r), r.timestamp)
  /\ isDirty' = TRUE
  /\ UNCHANGED <<now, disk, diskOk, writes, answer, syncVars>>

(* A play at the moment given *)
Listen(timestamp) == AddPlay(StreakPlay(timestamp), MaxEvents)

StreakNext == \E timestamp \in StreakTimes : Listen(timestamp)

StreakSpec == StoreInit /\ [][StreakNext]_vars

---------------------------------------------------------------------------
(* computeStats: the totals and the rankings of the log.  The code adds   *)
(* durationListened / 60 as a floating-point number of minutes; here the  *)
(* sums are kept in seconds and Math.round is taken on the sixtieths.     *)

MaxHeard == 3

StatsPlays ==
  { [songId |-> s, artistId |-> a, timestamp |-> 0,
     durationListened |-> d, totalDuration |-> 200] :
      s \in {"s1", "s2"}, a \in {"t1", "t2"}, d \in {29, 30} }

(* isQualifiedPlay that also asks more than half a minute *)
isQualifiedPlayOver(record) == record.durationListened > 30

isQualifiedPlay(record) == record.durationListened >= 30

RECURSIVE SumOf(_)
SumOf(records) ==
  IF records = <<>> THEN 0
  ELSE Head(records).durationListened + SumOf(Tail(records))

(* Math.round of a number of seconds taken as minutes *)
RoundMinutes(seconds) == (seconds + 30) \div 60

(* The keys of a Map in the order of their insertion *)
RECURSIVE KeysOf(_, _, _)
KeysOf(records, field, seen) ==
  IF records = <<>> THEN <<>>
  ELSE IF Head(records)[field] \in seen
    THEN KeysOf(Tail(records), field, seen)
    ELSE <<Head(records)[field]>> \o
         KeysOf(Tail(records), field, seen \cup {Head(records)[field]})

(* songPlayMap and artistPlayMap after the loop *)
PlayMap(records, field) ==
  LET keys == KeysOf(records, field, {})
      Of(id) == SelectSeq(records, LAMBDA r : r[field] = id)
  IN [i \in 1 .. Len(keys) |->
        [id |-> keys[i],
         plays |-> Len(SelectSeq(Of(keys[i]), isQualifiedPlay)),
         seconds |-> SumOf(Of(keys[i]))]]

(* sort((a, b) => b[1][by] - a[1][by]), which is stable *)
RECURSIVE InsertEntry(_, _, _)
InsertEntry(sorted, e, by) ==
  IF sorted = <<>> THEN <<e>>
  ELSE IF sorted[1][by] >= e[by]
    THEN <<sorted[1]>> \o InsertEntry(Tail(sorted), e, by)
  ELSE <<e>> \o sorted

RECURSIVE SortEntries(_, _)
SortEntries(entries, by) ==
  IF entries = <<>> THEN <<>>
  ELSE InsertEntry(SortEntries(SubSeq(entries, 1, Len(entries) - 1), by),
                   entries[Len(entries)], by)

(* slice(0, 5) and the map to the entries returned *)
TopFive(entries) ==
  [i \in 1 .. (IF Len(entries) < 5 THEN Len(entries) ELSE 5) |->
     [id |-> entries[i].id, plays |-> entries[i].plays,
      minutes |-> RoundMinutes(entries[i].seconds)]]

computeStats(records) ==
  [op |-> "stats",
   totalMinutes |-> RoundMinutes(SumOf(records)),
   totalSongs |-> Len(SelectSeq(records, isQualifiedPlay)),
   topSongs |-> TopFive(SortEntries(PlayMap(records, "songId"), "plays")),
   topArtists |-> TopFive(SortEntries(PlayMap(records, "artistId"), "seconds"))]

(* The handler of GET_STATS *)
GetStats ==
  /\ answer' = computeStats(getPlayRecords(data.playRecords, Undefined, Undefined))
  /\ UNCHANGED <<now, data, isDirty, disk, diskOk, writes, syncVars>>

Hear(r) == AddPlay(r, MaxHeard)

StatsNext ==
  \/ \E r \in StatsPlays : Hear(r)
  \/ GetStats

StatsSpec == StoreInit /\ [][StatsNext]_vars

---------------------------------------------------------------------------
(* aggregateDailyStats: the hourly aggregation of the plays of today.     *)
(* Dates are day numbers, as for the streak; the clock starts on day 1.   *)
(* totalMinutes is kept in tenths of a minute, the precision the code     *)
(* rounds to; the histogram of hours, the genres and the skips, which     *)
(* the records of the model do not carry, are left out.                   *)

MaxToday == 2
MaxLogged == 2

DayPlays ==
  { [songId |-> s, artistId |-> "t", timestamp |-> d * DAY + 1,
     durationListened |-> 45, totalDuration |-> 200] :
      s \in {"s1", "s2"}, d \in 1 .. MaxToday }

(* Math.round(totalMinutes * 10), of a number of seconds *)
RoundTenths(seconds) == (seconds + 3) \div 6

(* songMap and artistMap after the loop *)
CountMap(records, field) ==
  LET keys == KeysOf(records, field, {})
  IN [i \in 1 .. Len(keys) |->
        [id |-> keys[i],
         plays |-> Len(SelectSeq(records, LAMBDA r : r[field] = keys[i]))]]

(* sort by plays, slice(0, 10) *)
TopTen(entries) ==
  LET sorted == SortEntries(entries, "plays")
  IN SubSeq(sorted, 1, IF Len(sorted) < 10 THEN Len(sorted) ELSE 10)

DailyAggregate(today, records) ==
  [date |-> today,
   totalMinutes |-> RoundTenths(SumOf(records)),
   songsPlayed |-> Len(records),
   uniqueSongs |-> Cardinality({records[i].songId : i \in 1 .. Len(records)}),
   uniqueArtists |-> Cardinality({records[i].artistId : i \in 1 .. Len(records)}),
   topSongs |-> TopTen(CountMap(records, "songId")),
   topArtists |-> TopTen(CountMap(records, "artistId"))]

(* StatsDatabase.saveDailyAggregate, without markDirty *)
saveDailyAggregate(d, date, aggregate) ==
  [d EXCEPT !.dailyAggregates =
     [k \in (DOMAIN @) \cup {date} |-> IF k = date THEN aggregate ELSE @[k]]]

(* aggregateDailyStats that saves the aggregate of an empty day too *)
AggregateAlways ==
  LET today == DayOf(now)
      startOfDay == today * DAY
      endOfDay == startOfDay + DAY - 1
      records == getPlayRecords(data.playRecords, startOfDay, endOfDay)
  IN /\ answer' = [op |-> "query", startDate |-> startOfDay, endDate |-> endOfDay,
                    records |-> records]
     /\ data' = saveDailyAggregate(data, today, DailyAggregate(today, records))
     /\ isDirty' = TRUE
     /\ UNCHANGED <<now, disk, diskOk, writes, syncVars>>

(* The callback of the hourly timer; answer keeps what getPlayRecords     *)
(* returned to it                                                         *)
Aggregate ==
  LET today == DayOf(now)
      startOfDay == today * DAY
      endOfDay == startOfDay + DAY - 1
      records == getPlayRecords(data.playRecords, startOfDay, endOfDay)
  IN /\ answer' = [op |-> "query", startDate |-> startOfDay, endDate |-> endOfDay,
                    records |-> records]
     /\ IF records = <<>>
          THEN UNCHANGED <<data, isDirty>>
          ELSE /\ data' = saveDailyAggregate(data, today, DailyAggregate(today, records))
               /\ isDirty' = TRUE
     /\ UNCHANGED <<now, disk, diskOk, writes, syncVars>>

(* Midnight *)
NextDay ==
  /\ DayOf(now) < MaxToday
  /\ now' = (DayOf(now) + 1) * DAY
  /\ UNCHANGED <<storeVars, syncVars>>

(* The documents the file at dbPath holds at the start: none, or one that *)
(* was imported, with an aggregate for a day of which it has no plays     *)
DayDocs ==
  { EmptyData,
    [EmptyData EXCEPT
       !.playRecords = <<WithId(RecZ, 1)>>,
       !.dailyAggregates =
          [k \in {MaxToday} |->
             [date |-> MaxToday, totalMinutes |-> 8, songsPlayed |-> 1,
              uniqueSongs |-> 1, uniqueArtists |-> 1,
              topSongs |-> <<[id |-> "z", plays |-> 1]>>,
              topArtists |-> <<[id |-> "c", plays |-> 1]>>]]] }

DayInit ==
  /\ now = DAY
  /\ data \in DayDocs
  /\ disk = data
  /\ config = BlankConfig
  /\ session = NoSession
  /\ isSyncing = FALSE
  /\ syncTimer = FALSE
  /\ isDirty = FALSE
  /\ diskOk = TRUE
  /\ remote = [f \in FileIds |-> Unused]
  /\ call = [c \in Callers |-> IdleCall]
  /\ outcome = NoResult
  /\ passes = 0
  /\ writes = {}
  /\ answer = NoAnswer
  /\ timers = 0
  /\ backend = "running"
  /\ auth = [a \in Attempts |-> NoAttempt]

DayNext ==
  \/ \E r \in DayPlays : AddPlay(r, MaxLogged)
  \/ Aggregate
  \/ NextDay

DaySpec == DayInit /\ [][DayNext]_vars

---------------------------------------------------------------------------
(* mergeExports on its own: this installation holds one document, the     *)
(* file of the remote store the export of another, and the two differ in  *)
(* their records only.  Each side merges the other's bundle into its own. *)

AllPlays == <<RecP, RecX, RecY, RecZ>>

(* The log of an installation that played the records of a set, in order *)
LogOf(plays) ==
  LET chosen == SelectSeq(AllPlays, LAMBDA r : r \in plays)
  IN [i \in 1 .. Len(chosen) |-> WithId(chosen[i], i)]

MergeAggregates ==
  {EmptyMap, [k \in {"1970-01-01"} |-> [totalMinutes |-> 1]]}

MergeStreaks == {<<>>, <<[lastListenDate |-> 1, currentStreak |-> 1]>>}

MergeDoc(plays, aggregates, streak) ==
  [playRecords |-> LogOf(plays), dailyAggregates |-> aggregates,
   monthlyAggregates |-> EmptyMap, streak |-> streak]

MergeInit ==
  /\ \E common \in SUBSET {RecP}, mine \in SUBSET {RecX, RecY, RecZ},
        theirs \in SUBSET {RecX, RecY, RecZ},
        aggregates \in MergeAggregates, streak \in MergeStreaks :
        /\ mine \cap theirs = {}
        /\ data = MergeDoc(common \cup mine, aggregates, streak)
        /\ remote = [f \in FileIds |->
                       IF f = 1
                         THEN exportData(MergeDoc(common \cup theirs, aggregates, streak), 0)
                         ELSE Unused]
  /\ now = 0
  /\ config = BlankConfig
  /\ session = NoSession
  /\ isSyncing = FALSE
  /\ syncTimer = FALSE
  /\ isDirty = FALSE
  /\ disk = data
  /\ diskOk = TRUE
  /\ call = [c \in Callers |-> IdleCall]
  /\ outcome = NoResult
  /\ passes = 0
  /\ writes = {}
  /\ answer = NoAnswer
  /\ timers = 0
  /\ backend = "running"
  /\ auth = [a \in Attempts |-> NoAttempt]

(* mergeExports(local, remote) here, and mergeExports with the sides      *)
(* exchanged on the other installation                                    *)
Merge ==
  /\ answer = NoAnswer
  /\ LET mine == parseExport(exportData(data, now))
         theirs == parseExport(remote[1])
     IN answer' = [op |-> "merge",
                   here |-> mergeExports(mine, theirs, now),
                   there |-> mergeExports(theirs, mine, now)]
  /\ UNCHANGED <<now, data, isDirty, disk, diskOk, writes, syncVars>>

MergeNext == Merge

MergeSpec == MergeInit /\ [][MergeNext]_vars

---------------------------------------------------------------------------
(* mergeAggregate on its own: the two installations hold the same (empty) *)
(* log and aggregate maps of their own over two dates; songsPlayed tells  *)
(* the entry of one side from the entry of the other.                     *)

MaxMinutes == 2

AggDates == {"1970-01-01", "1970-01-02"}

AggMaps(songs) ==
  UNION {[dates -> {[totalMinutes |-> m, songsPlayed |-> songs] : m \in 0 .. MaxMinutes}] :
           dates \in SUBSET AggDates}

AggInit ==
  /\ \E left \in AggMaps(1), right \in AggMaps(2) :
        /\ data = MergeDoc({}, left, <<>>)
        /\ remote = [f \in FileIds |->
                       IF f = 1 THEN exportData(MergeDoc({}, right, <<>>), 0)
                       ELSE Unused]
  /\ now = 0
  /\ config = BlankConfig
  /\ session = NoSession
  /\ isSyncing = FALSE
  /\ syncTimer = FALSE
  /\ isDirty = FALSE
  /\ disk = data
  /\ diskOk = TRUE
  /\ call = [c \in Callers |-> IdleCall]
  /\ outcome = NoResult
  /\ passes = 0
  /\ writes = {}
  /\ answer = NoAnswer
  /\ timers = 0
  /\ backend = "running"
  /\ auth = [a \in Attempts |-> NoAttempt]

AggNext == Merge

AggSpec == AggInit /\ [][AggNext]_vars

---------------------------------------------------------------------------
(* Steps of a pass, as the properties below name them *)

(* The pass of caller c ends in this step *)
Ends(c) == InBody(c) /\ call'[c].pc = "idle"

(* An idle caller calls syncDriveNow in this step: it is rejected (only   *)
(* the result changes) or its pass begins                                 *)
Calls(c) ==
  /\ call[c].pc = "idle"
  /\ \/ call'[c] # call[c]
     \/ call' = call /\ outcome' # outcome

(* downloadDriveFile hands the remote text to the pass in this step *)
Delivered(c) ==
  /\ call[c].pc = "downloading"
  /\ \/ call'[c].pc = "uploading" /\ call'[c].dlOutcome = "ok"
     \/ call'[c].pc = "idle" /\ outcome'.thrown # "net::ERR_FAILED"

Ids(records) == {Identity(records[i]) : i \in 1 .. Len(records)}

NoRepeat(records) ==
  \A i, j \in 1 .. Len(records) :
    Identity(records[i]) = Identity(records[j]) => i = j

IsPrefix(s, t) == Len(s) <= Len(t) /\ SubSeq(t, 1, Len(s)) = s

Sent(c, kind) == \E i \in 1 .. Len(call[c].reqs) : call[c].reqs[i] = kind

(* The document of the export whose digest is the recorded lastHash *)
SyncedData(cfg) == DataOf(cfg.cloudSyncLastHash.of.value)

CountReq(c, kind) ==
  Cardinality({i \in 1 .. Len(call[c].reqs) : call[c].reqs[i] = kind})

(* A call that passed the checks ends in this step, at its first         *)
(* statement or after a request                                          *)
PassEnds(c) ==
  \/ Ends(c)
  \/ call[c].pc = "idle" /\ call' = call /\ passes' # passes

NoCredential(cfg, sess) ==
  /\ cfg.cloudSyncRefreshToken = ""
  /\ cfg.cloudSyncAccessToken = ""
  /\ sess.accessToken = ""

---------------------------------------------------------------------------
(* C1: a call of syncDriveNow made while a pass is in flight returns at   *)
(* once with the failure "Sync already in progress." and changes nothing: *)
(* no field of the configuration, no session token, nothing of the        *)
(* document, and no request is sent.                                      *)
C1_RejectedWhileSyncing ==
  [][\A c \in Callers :
       (isSyncing /\ Calls(c)) =>
         /\ outcome' = Result(FALSE, "Sync already in progress.", "")
         /\ call' = call
         /\ UNCHANGED <<now, config, session, isSyncing, lifeVars, storeVars,
                        remote, passes>>]_vars

C1_Witness ==
  /\ isSyncing
  /\ outcome = Result(FALSE, "Sync already in progress.", "")
  /\ \E c \in Callers : InBody(c) /\ Len(call[c].reqs) > 0

(* C2: at any time at most one pass is between setting and clearing the   *)
(* in-flight flag, whatever the interleaving of timer ticks and manual    *)
(* requests at the network waits of a pass.                               *)
C2_AtMostOnePass ==
  /\ Cardinality({c \in Callers : InBody(c)}) <= 1
  /\ isSyncing <=> \E c \in Callers : InBody(c)

C2_Witness ==
  /\ InBody("timer")
  /\ call["ipc"].pc = "idle"
  /\ outcome = Result(FALSE, "Sync already in progress.", "")

(* C3: with lastHash recorded for a common state H0, the local log having *)
(* gained records since H0 and the remote bundle having gained other      *)
(* records since H0, the pass takes the merge branch and the merged       *)
(* bundle, imported locally and uploaded, holds every record of either    *)
(* side exactly once by the identity (songId, artistId, timestamp,        *)
(* durationListened, totalDuration).                                      *)
C3_MergeKeepsBothEdits ==
  [][\A c \in Callers :
       (/\ Delivered(c)
        /\ call[c].cfg.cloudSyncLastHash # NoHash
        /\ LET H == Ids(SyncedData(call[c].cfg).playRecords)
               L == Ids(call[c].localJson.value.playRecords)
               R == Ids(remote[call[c].fileId].value.playRecords)
           IN /\ H \subseteq L /\ H \subseteq R
              /\ L \ H # {} /\ R \ H # {}
              /\ (L \ H) \cap (R \ H) = {}) =>
         /\ call'[c].pc = "uploading"
         /\ call'[c].branch = "merge"
         /\ Ids(call'[c].upJson.value.playRecords) =
              Ids(call[c].localJson.value.playRecords)
                \cup Ids(remote[call[c].fileId].value.playRecords)
         /\ NoRepeat(call'[c].upJson.value.playRecords)
         /\ data'.playRecords = call'[c].upJson.value.playRecords]_vars

(* C4: when no file id is cached and the store lists no file, the pass    *)
(* sends one create request; when it is answered the store holds exactly  *)
(* one new file, whose content is the local export of the pass, the new   *)
(* file id and the digest of that export are persisted, lastError is      *)
(* cleared, the result is the success "Cloud sync initialized." and the   *)
(* local document is unchanged.                                           *)
C4_FirstSyncCreates ==
  /\ [](\A c \in Callers :
          call[c].listOutcome = "none" =>
            /\ call[c].pc = "creating"
            /\ call[c].cfg.cloudSyncFileId = NoFile
            /\ CountReq(c, "create") = 1
            /\ CountReq(c, "upload") = 0
            /\ call[c].imports = <<>>
            /\ IsPrefix(call[c].localJson.value.playRecords, data.playRecords))
  /\ [][\A c \in Callers :
         (call[c].listOutcome = "none" /\ Ends(c) /\ outcome'.ok) =>
           /\ \E f \in FileIds :
                 /\ ~Exists(f)
                 /\ remote' = [remote EXCEPT ![f] = call[c].localJson]
                 /\ config' =
                      [config EXCEPT
                         !.cloudSyncFileId = f,
                         !.cloudSyncLastHash = hashString(call[c].localJson),
                         !.cloudSyncLastSyncTime = now,
                         !.cloudSyncLastError = ""]
           /\ outcome' = Result(TRUE, "Cloud sync initialized.", "")
           /\ UNCHANGED storeVars]_vars

C4_Witness ==
  /\ outcome = Result(TRUE, "Cloud sync initialized.", "")
  /\ config.cloudSyncFileId # NoFile
  /\ IsJson(remote[config.cloudSyncFileId])
  /\ config.cloudSyncLastHash = hashString(remote[config.cloudSyncFileId])
  /\ remote[config.cloudSyncFileId].value.playRecords = data.playRecords
  /\ Len(data.playRecords) = MaxRecords

(* C5: when the downloaded text has the digest of the local export, the   *)
(* pass ends at once with the success "Cloud sync up to date.": it has    *)
(* sent no create and no upload request, the document and its file are    *)
(* unchanged, and that digest is recorded as lastHash.                    *)
C5_EqualHashesNoOp ==
  [][\A c \in Callers :
       (/\ Delivered(c)
        /\ hashString(remote[call[c].fileId]) = hashString(call[c].localJson)) =>
         /\ Ends(c)
         /\ outcome' = Result(TRUE, "Cloud sync up to date.", "")
         /\ CountReq(c, "create") = 0
         /\ CountReq(c, "upload") = 0
         /\ call[c].imports = <<>>
         /\ config' = [config EXCEPT
                         !.cloudSyncLastHash = hashString(call[c].localJson),
                         !.cloudSyncLastSyncTime = now,
                         !.cloudSyncLastError = ""]
         /\ UNCHANGED <<remote, storeVars>>]_vars

C5_Witness ==
  /\ outcome = Result(TRUE, "Cloud sync up to date.", "")
  /\ config.cloudSyncFileId # NoFile
  /\ config.cloudSyncLastHash = hashString(remote[config.cloudSyncFileId])
  /\ config.cloudSyncLastHash = hashString(exportData(data, now))

(* C6: with lastHash recorded, the local document as it was at the last   *)
(* successful sync and a remote text whose digest is no longer lastHash,  *)
(* the pass pulls: it ends with the document replaced by the remote       *)
(* bundle and lastHash the remote digest, and it has sent no create and   *)
(* no upload request.                                                     *)
C6_PullWhenOnlyRemoteChanged ==
  [][\A c \in Callers :
       (/\ Delivered(c)
        /\ call[c].cfg.cloudSyncLastHash # NoHash
        /\ DataOf(call[c].localJson.value) = SyncedData(call[c].cfg)
        /\ hashString(remote[call[c].fileId]) # call[c].cfg.cloudSyncLastHash) =>
         /\ Ends(c)
         /\ outcome'.ok
         /\ CountReq(c, "create") = 0
         /\ CountReq(c, "upload") = 0
         /\ data' = DataOf(remote[call[c].fileId].value)
         /\ config'.cloudSyncLastHash = hashString(remote[call[c].fileId])
         /\ remote' = remote]_vars

(* C7: with lastHash recorded, a remote text whose digest still is        *)
(* lastHash and a local document changed since the last sync, the pass    *)
(* pushes: it uploads the local export and leaves the document alone, and *)
(* when the upload is answered the file holds that export and lastHash is *)
(* its digest.                                                            *)
C7_PushWhenOnlyLocalChanged ==
  [][\A c \in Callers :
       /\ (/\ Delivered(c)
           /\ call[c].cfg.cloudSyncLastHash # NoHash
           /\ hashString(remote[call[c].fileId]) = call[c].cfg.cloudSyncLastHash
           /\ DataOf(call[c].localJson.value) # SyncedData(call[c].cfg)) =>
             /\ call'[c].pc = "uploading"
             /\ call'[c].branch = "push"
             /\ call'[c].upJson = call[c].localJson
             /\ UNCHANGED storeVars
       /\ (call[c].branch = "push" /\ Ends(c) /\ outcome'.ok) =>
             /\ remote' = [remote EXCEPT ![call[c].fileId] = call[c].localJson]
             /\ config'.cloudSyncLastHash = hashString(call[c].localJson)
             /\ UNCHANGED storeVars]_vars

(* C8: when the file of the known id no longer exists in the store, the   *)
(* download fails, the pass goes on to upload the local export, and it    *)
(* ends with a success and with the store holding the local export.       *)
C8_GoneFileRecreated ==
  [][\A c \in Callers :
       (/\ call[c].pc = "uploading"
        /\ call[c].dlOutcome = "missing"
        /\ Ends(c)) =>
         /\ outcome'.ok
         /\ \E f \in FileIds : remote'[f] = call[c].localJson]_vars

(* C9: a pass sends each of its requests at most once, and a pass that    *)
(* ends without success has caught an exception: the call returns the     *)
(* failure "Cloud sync failed.", cloudSyncLastError is the message of the *)
(* exception, nothing else of the configuration changes, and the          *)
(* in-flight flag is cleared.                                             *)
C9_ExceptionsCaught ==
  /\ [](\A c \in Callers : \A k \in {"token", "list", "create", "download", "upload"} :
          CountReq(c, k) <= 1)
  /\ [][\A c \in Callers :
         (PassEnds(c) /\ ~outcome'.ok) =>
           /\ outcome'.message = "Cloud sync failed."
           /\ outcome'.thrown # ""
           /\ config' = [config EXCEPT !.cloudSyncLastError = outcome'.thrown]
           /\ call'[c] = IdleCall
           /\ ~isSyncing'
           /\ UNCHANGED <<remote, storeVars, session>>]_vars

C9_Witness ==
  /\ outcome = Result(FALSE, "Cloud sync failed.", "Failed to upload Drive file.")
  /\ config.cloudSyncLastError = "Failed to upload Drive file."
  /\ ~isSyncing

(* C10: a call made while no pass is in flight, with cloud sync disabled, *)
(* or without a client id, or without any credential (no refresh token    *)
(* and no access token), returns a failure that names the cause, sends no *)
(* request and changes nothing.                                           *)
C10_PreconditionFailure ==
  [][\A c \in Callers :
       (/\ Calls(c)
        /\ ~isSyncing
        /\ \/ ~config.cloudSyncEnabled
           \/ config.cloudSyncClientId = ""
           \/ NoCredential(config, session)) =>
         /\ outcome' = Result(FALSE,
                              IF config.cloudSyncEnabled
                                THEN "Connect Google Drive first."
                                ELSE "Cloud sync is disabled.", "")
         /\ call' = call
         /\ UNCHANGED <<now, config, session, isSyncing, lifeVars, storeVars,
                        remote, passes>>]_vars

C10_Witness ==
  /\ outcome = Result(FALSE, "Connect Google Drive first.", "")
  /\ config.cloudSyncEnabled
  /\ config.cloudSyncClientId # ""
  /\ NoCredential(config, session)
  /\ Len(data.playRecords) > 0

---------------------------------------------------------------------------
(* ensureAccessToken, as the first statement of a pass *)

(* A call passes the checks and runs ensureAccessToken in this step *)
Begins(c) ==
  /\ call[c].pc = "idle"
  /\ passes' = passes + 1
  /\ call'[c] # call[c] \/ call' = call

PersistedFresh ==
  /\ config.cloudSyncAccessToken # ""
  /\ config.cloudSyncAccessTokenExpiry > now + SKEW

SessionFresh ==
  /\ session.accessToken # ""
  /\ session.accessTokenExpiry > now + SKEW

MissingMessage == "Missing refresh token. Reconnect Google Drive."

(* C11: ensureAccessToken returns the persisted access token, without a   *)
(* request, exactly when it is present and its expiry is later than now   *)
(* plus 60 s; otherwise the session token exactly when the session expiry *)
(* is later than now plus 60 s; only otherwise it sends the refresh       *)
(* exchange (or fails for want of a refresh token).  No token whose       *)
(* expiry is at most now plus 60 s is returned from the cache.            *)
C11_CachedTokenRule ==
  [][\A c \in Callers :
       Begins(c) =>
         LET returned == call'[c].accessToken
             asked == call'[c].pc = "refreshing"
         IN /\ PersistedFresh =>
                 returned = config.cloudSyncAccessToken /\ ~asked
            /\ (~PersistedFresh /\ SessionFresh) =>
                 returned = session.accessToken /\ ~asked
            /\ (~PersistedFresh /\ ~SessionFresh) =>
                 /\ returned = ""
                 /\ asked \/ (call' = call /\ outcome'.thrown = MissingMessage)
            /\ asked <=> call'[c].reqs = <<"token">>
            /\ ~asked => \A i \in 1 .. Len(call'[c].reqs) :
                            call'[c].reqs[i] # "token"]_vars

C11_Witness ==
  \E c \in Callers :
    /\ InBody(c)
    /\ call[c].accessToken = "at2"
    /\ call[c].cfg.cloudSyncAccessToken = "at0"
    /\ call[c].cfg.cloudSyncAccessTokenExpiry = now + SKEW
    /\ CountReq(c, "token") = 0

(* C12: with a persisted access token that has expired, no fresh session  *)
(* token and a refresh token present, ensureAccessToken sends exactly one *)
(* request to the token endpoint; when it is answered the pass goes on    *)
(* with the newly issued token, and no authorization attempt is started.  *)
C12_ExpiredTokenRefreshed ==
  [][\A c \in Callers :
       /\ (/\ Begins(c)
           /\ config.cloudSyncAccessToken # ""
           /\ ~PersistedFresh /\ ~SessionFresh
           /\ config.cloudSyncRefreshToken # "") =>
             /\ call'[c].pc = "refreshing"
             /\ call'[c].reqs = <<"token">>
             /\ UNCHANGED auth
       /\ (call[c].pc = "refreshing"
           /\ call'[c].pc \in BodyPcs \ {"refreshing"}) =>
             /\ call[c].reqs = <<"token">>
             /\ call'[c].accessToken = "at1"
             /\ config'.cloudSyncAccessToken = "at1"
             /\ session'.accessToken = "at1"
             /\ Cardinality({i \in 1 .. Len(call'[c].reqs) :
                               call'[c].reqs[i] = "token"}) = 1
             /\ UNCHANGED auth]_vars

C12_Witness ==
  \E c \in Callers :
    /\ InBody(c)
    /\ call[c].accessToken = "at1"
    /\ call[c].cfg.cloudSyncAccessToken = "at0"
    /\ call[c].cfg.cloudSyncAccessTokenExpiry <= now
    /\ call[c].cfg.cloudSyncRefreshToken = "rt"
    /\ CountReq(c, "token") = 1

(* C13: with no fresh persisted or session access token and neither a     *)
(* persisted nor a session refresh token, ensureAccessToken throws the    *)
(* missing refresh token error before any request; the pass fails with    *)
(* that message in cloudSyncLastError.                                    *)
C13_MissingRefreshToken ==
  [][\A c \in Callers :
       (/\ Begins(c)
        /\ ~PersistedFresh /\ ~SessionFresh
        /\ config.cloudSyncRefreshToken = "" /\ session.refreshToken = "") =>
         /\ call' = call
         /\ outcome' = Result(FALSE, "Cloud sync failed.", MissingMessage)
         /\ config' = [config EXCEPT !.cloudSyncLastError = MissingMessage]
         /\ ~isSyncing'
         /\ UNCHANGED <<session, remote, storeVars>>]_vars

C13_Witness ==
  /\ outcome = Result(FALSE, "Cloud sync failed.", MissingMessage)
  /\ config.cloudSyncLastError = MissingMessage
  /\ config.cloudSyncAccessToken # ""
  /\ config.cloudSyncRefreshToken = "" /\ session.refreshToken = ""
  /\ \A c \in Callers : call[c] = IdleCall

---------------------------------------------------------------------------
(* The interactive authorization and the sync timer *)

CodeResults ==
  {"Failed to exchange token.", "Logged in without refresh token.",
   "Google Drive connected.", "Google authorization failed."}

(* The result that belongs to the event that came first *)
ResultOf(first) ==
  CASE first = "code" -> CodeResults
    [] first = "error" -> {"Google authorization was cancelled or failed."}
    [] first = "cancel" -> {"Google authorization cancelled."}
    [] first = "timeout" -> {"Google authorization timed out."}
    [] OTHER -> {"Missing Google OAuth Client ID.",
                 "Failed to start local callback server."}

(* C14: an authorization attempt has one result, the one of the event     *)
(* that came first among the callback with a code, the callback with an   *)
(* error or without a code, Cancel at the prompt and the 5-minute         *)
(* timeout; a later event does not change it.                             *)
C14_ResultOfFirstEvent ==
  [][\A a \in Attempts :
       /\ auth'[a].resolves > 0 => auth'[a].result \in ResultOf(auth'[a].first)
       /\ auth[a].resolves > 0 => auth'[a].result = auth[a].result]_vars

(* C15: the server of an attempt is closed when the attempt has its       *)
(* result, whichever way it ended, and close is called once.              *)
C15_ListenerClosedOnce ==
  \A a \in Attempts :
    /\ (auth[a].resolves > 0 /\ auth[a].srv # "none") => auth[a].srv = "closed"
    /\ auth[a].closes <= 1

(* C16: a sync timer is live only while cloudSyncEnabled is true, and     *)
(* there is never more than one.                                          *)
C16_TimerOnlyWhileEnabled ==
  /\ timers > 0 => config.cloudSyncEnabled
  /\ timers <= 1

---------------------------------------------------------------------------
(* The store: ids, queries, import and the write-behind save *)

IdsOf(records) == {records[i].id : i \in 1 .. Len(records)}

DistinctIds(records) ==
  \A i, j \in 1 .. Len(records) : records[i].id = records[j].id => i = j

(* C17: whatever appends and imports came before, the ids of the log are  *)
(* pairwise distinct, and addPlayRecord gives the new record an id greater *)
(* than every id of the log.                                               *)
C17_AppendIdGreater ==
  [][/\ DistinctIds(data'.playRecords)
     /\ \A r \in Plays :
          AddRecord(r) =>
            \A n \in IdsOf(data.playRecords) :
               data'.playRecords[Len(data'.playRecords)].id > n]_vars

CountOf(x, records) == Cardinality({i \in 1 .. Len(records) : records[i] = x})

SortedDesc(records) ==
  \A i \in 1 .. Len(records) - 1 :
    records[i].timestamp >= records[i + 1].timestamp

(* A record satisfies every bound that is given *)
Wanted(r, startDate, endDate) ==
  /\ startDate # Undefined => startDate <= r.timestamp
  /\ endDate # Undefined => r.timestamp <= endDate

(* C18: getPlayRecords returns the records of the log that satisfy every  *)
(* bound given, also a bound given alone and a bound of 0, each as often  *)
(* as the log holds it, newest first, and leaves the log as it is.        *)
C18_QueryHonoursBounds ==
  [][\A startDate \in QueryBounds, endDate \in QueryBounds :
       Query(startDate, endDate) =>
         /\ SortedDesc(answer'.records)
         /\ \A i \in 1 .. Len(data.playRecords) :
              LET r == data.playRecords[i]
              IN CountOf(r, answer'.records) =
                   IF Wanted(r, startDate, endDate)
                     THEN CountOf(r, data.playRecords) ELSE 0
         /\ \A i \in 1 .. Len(answer'.records) :
              CountOf(answer'.records[i], data.playRecords) > 0
         /\ data' = data]_vars

FourFields == {"playRecords", "dailyAggregates", "monthlyAggregates", "streak"}

(* C19: importData replaces each of the four fields of the document by    *)
(* the field of the bundle, or by the empty value when the bundle lacks   *)
(* it; when importData returns, the file holds the document that its save *)
(* wrote.                                                                 *)
C19_ImportReplacesAndPersists ==
  [][/\ \A t \in ImportTexts :
          (IsJson(t) /\ ImportFile(t)) =>
            \A f \in FourFields :
              IF f \in DOMAIN t.value
                THEN data'[f] = t.value[f]
                ELSE data'[f] \in {<<>>, EmptyMap}
     /\ \A w \in writes :
          (w.from = "import" /\ w.stage = "writing" /\ w \notin writes') =>
            disk' = w.snap]_vars

(* C20: whenever the dirty flag is clear and no save is under way the     *)
(* file equals the document, and the save timer starts a save only when   *)
(* the flag is set.                                                       *)
C20_CleanMeansSaved ==
  [][/\ (~isDirty' /\ writes' = {}) => disk' = data'
     /\ \A w \in writes' \ writes :
          (w.from = "tick" /\ w.stage = "begun") => isDirty]_vars

---------------------------------------------------------------------------
(* The streak *)

DaysOf(records) == [i \in 1 .. Len(records) |-> DayOf(records[i].timestamp)]

StreakIs(d, date, count) ==
  d.streak = <<[lastListenDate |-> date, currentStreak |-> count]>>

(* C21: the first event creates the streak with count 1; later an event   *)
(* of the same day changes nothing, one of the next day adds 1 and moves  *)
(* the date, one after a gap gives count 1 and moves the date; events on  *)
(* days D, D, D+1, D+3 give the counts 1, 1, 2, 1.                        *)
C21_StreakTransition ==
  [][\A timestamp \in StreakTimes :
       Listen(timestamp) =>
         LET today == DayOf(timestamp)
             diffDays == today - data.streak[1].lastListenDate
         IN /\ data.streak = <<>> => StreakIs(data', today, 1)
            /\ (data.streak # <<>> /\ diffDays = 0) => data'.streak = data.streak
            /\ (data.streak # <<>> /\ diffDays = 1) =>
                  StreakIs(data', today, data.streak[1].currentStreak + 1)
            /\ (data.streak # <<>> /\ diffDays > 1) => StreakIs(data', today, 1)
            /\ \A D \in 0 .. MaxDay - 3 :
                  LET days == DaysOf(data'.playRecords)
                  IN /\ days = <<D>> => StreakIs(data', D, 1)
                     /\ days = <<D, D>> => StreakIs(data', D, 1)
                     /\ days = <<D, D, D + 1>> => StreakIs(data', D + 1, 2)
                     /\ days = <<D, D, D + 1, D + 3>> => StreakIs(data', D + 3, 1)]_vars

C21_Witness ==
  /\ DaysOf(data.playRecords) = <<0, 0, 1, 3>>
  /\ StreakIs(data, 3, 1)

(* C30: whatever the order of the timestamps of the events, the streak    *)
(* has a count of at least 1, its date never moves back, and an event of  *)
(* a day before its date leaves it as it is.                              *)
C30_StreakNeverRegresses ==
  [][\A timestamp \in StreakTimes :
       Listen(timestamp) =>
         /\ data'.streak # <<>>
         /\ data'.streak[1].currentStreak >= 1
         /\ data.streak # <<>> =>
               /\ data'.streak[1].lastListenDate >= data.streak[1].lastListenDate
               /\ DayOf(timestamp) < data.streak[1].lastListenDate =>
                     data'.streak = data.streak]_vars

C30_Witness ==
  /\ DaysOf(data.playRecords) = <<1, 2, 0>>
  /\ StreakIs(data, 2, 2)

---------------------------------------------------------------------------
(* mergeExports *)

(* C22: merged either way round, two bundles that differ only in disjoint *)
(* sets of records give the same set of record identities and the same    *)
(* aggregate keys, and no identity twice.                                 *)
C22_MergeEitherWay ==
  answer.op = "merge" =>
    /\ Ids(answer.here.playRecords) = Ids(answer.there.playRecords)
    /\ DOMAIN answer.here.dailyAggregates = DOMAIN answer.there.dailyAggregates
    /\ DOMAIN answer.here.monthlyAggregates = DOMAIN answer.there.monthlyAggregates
    /\ NoRepeat(answer.here.playRecords)
    /\ NoRepeat(answer.there.playRecords)

---------------------------------------------------------------------------
(* computeStats *)

Heard(records, field, id) == SelectSeq(records, LAMBDA r : r[field] = id)

LongPlays(records) ==
  Cardinality({i \in 1 .. Len(records) : records[i].durationListened >= 30})

(* The entries of a ranking are those of the ids of the log, each with    *)
(* the plays of at least 30 s and the minutes of all its records          *)
RankingOf(top, records, field) ==
  /\ {top[i].id : i \in 1 .. Len(top)} =
       {records[i][field] : i \in 1 .. Len(records)}
  /\ \A i \in 1 .. Len(top) :
       /\ top[i].plays = LongPlays(Heard(records, field, top[i].id))
       /\ top[i].minutes = RoundMinutes(SumOf(Heard(records, field, top[i].id)))

(* C23: every record, also one of 29 s, adds its seconds to the minute    *)
(* totals (overall, of its song, of its artist); only a record of 30 s or *)
(* more adds to totalSongs and to the plays of its song and its artist.   *)
C23_QualifiedPlayThreshold ==
  [][GetStats =>
       /\ answer'.totalSongs = LongPlays(data.playRecords)
       /\ answer'.totalMinutes = RoundMinutes(SumOf(data.playRecords))
       /\ RankingOf(answer'.topSongs, data.playRecords, "songId")
       /\ RankingOf(answer'.topArtists, data.playRecords, "artistId")]_vars

C23_Witness ==
  /\ answer.op = "stats"
  /\ Len(data.playRecords) = 3
  /\ LongPlays(data.playRecords) = 1
  /\ answer.totalSongs = 1
  /\ answer.totalMinutes = 1
  /\ Len(answer.topSongs) = 1
  /\ answer.topSongs[1].plays = 1
  /\ answer.topSongs[1].minutes = 1

---------------------------------------------------------------------------
(* The in-flight flag *)

(* C24: a pass that set the in-flight flag clears it when it ends, by a   *)
(* return or by an exception, and it does end when its requests are       *)
(* answered; a call made while no pass is under way is never rejected as  *)
(* already syncing, whatever the result of the pass before.               *)
C24_FlagAlwaysCleared ==
  /\ isSyncing ~> ~isSyncing
  /\ [][\A c \in Callers :
         /\ PassEnds(c) => ~isSyncing'
         /\ (Calls(c) /\ \A d \in Callers : ~InBody(d)) =>
              outcome'.message # "Sync already in progress."]_vars

C24_Witness ==
  /\ passes = 2
  /\ config.cloudSyncLastError = "net::ERR_FAILED"
  /\ isSyncing
  /\ \E c \in Callers : InBody(c) /\ Len(call[c].reqs) > 0

---------------------------------------------------------------------------
(* Errors of the requests *)

(* The store answers the list query of c in this step *)
ListAnswered(c) == call[c].pc = "listing" /\ call'[c] # call[c]

(* C25: when the list query fails, by a response that is not ok or by an  *)
(* unreachable store, the pass ends there with the failure recorded in    *)
(* cloudSyncLastError, and no file is created in the store.               *)
C25_FailedListAborts ==
  [][\A c \in Callers :
       (ListAnswered(c) /\ call'[c].listOutcome \notin {"none", "found"}) =>
         /\ call'[c] = IdleCall
         /\ ~outcome'.ok
         /\ config'.cloudSyncLastError # ""
         /\ ~isSyncing'
         /\ remote' = remote]_vars

---------------------------------------------------------------------------
(* The refresh exchange *)

(* The token endpoint answers the refresh exchange of c in this step *)
RefreshAnswered(c) == call[c].pc = "refreshing" /\ call'[c] # call[c]

(* C26: after a refresh exchange that succeeded the session and the       *)
(* configuration hold the same new access token with the expiry now +     *)
(* expires_in - 60 s, and cloudSyncLastError is empty; after one that     *)
(* failed the pass fails, and the session and the persisted access token  *)
(* and expiry are as before.                                              *)
C26_RefreshStoresToken ==
  [][\A c \in Callers :
       RefreshAnswered(c) =>
         IF call'[c].pc # "idle"
           THEN /\ session'.accessToken = "at1"
                /\ config'.cloudSyncAccessToken = session'.accessToken
                /\ \E e \in ExpiresInValues :
                     /\ session'.accessTokenExpiry = now + e - SKEW
                     /\ config'.cloudSyncAccessTokenExpiry = now + e - SKEW
                /\ config'.cloudSyncLastError = ""
                /\ session'.refreshToken = session.refreshToken
                /\ config'.cloudSyncRefreshToken = config.cloudSyncRefreshToken
           ELSE /\ ~outcome'.ok
                /\ outcome'.thrown = "Failed to refresh Google token."
                /\ session' = session
                /\ config'.cloudSyncAccessToken = config.cloudSyncAccessToken
                /\ config'.cloudSyncAccessTokenExpiry =
                     config.cloudSyncAccessTokenExpiry]_vars

C26_Witness ==
  /\ session.accessToken = "at1"
  /\ config.cloudSyncAccessToken = "at1"
  /\ session.accessTokenExpiry = config.cloudSyncAccessTokenExpiry
  /\ config.cloudSyncLastError = ""
  /\ \E c \in Callers : InBody(c) /\ call[c].accessToken = "at1"
                            /\ call[c].cfg.cloudSyncAccessToken = "at0"

---------------------------------------------------------------------------
(* The exchange of the authorization code *)

---------------------------------------------------------------------------
(* A save that fails *)

(* C28: a write of save() that fails changes neither the file nor the     *)
(* dirty flag nor the document, and a save of the timer only logs it;     *)
(* the flag being set, the timer saves again, and once the writes succeed *)
(* for good the flag is cleared by a save that wrote the document.        *)
C28_FailedFlushRetried ==
  /\ [][\A w \in writes :
         (w.stage = "writing" /\ w \notin writes' /\ ~diskOk) =>
           /\ isDirty' = isDirty
           /\ disk' = disk
           /\ data' = data
           /\ w.from = "tick" => answer' = [op |-> "save", ok |-> FALSE]]_vars
  /\ [][\A w \in writes :
         (w.stage = "writing" /\ w \notin writes' /\ isDirty /\ ~isDirty') =>
           disk' = w.snap]_vars
  /\ (<>[]diskOk) => (isDirty ~> ~isDirty)

C28_Witness ==
  /\ answer = [op |-> "save", ok |-> FALSE]
  /\ isDirty
  /\ diskOk
  /\ disk # data
  /\ \E w \in writes : w.from = "tick" /\ w.stage = "writing" /\ w.snap = data
---------------------------------------------------------------------------
(* Shutdown *)

(* C29: close() called while the document differs from the file begins a  *)
(* save; when the write of that save succeeds the file equals the         *)
(* document; and the save timer does not fire once close() was called.    *)
C29_ShutdownFlush ==
  /\ [][(Close /\ disk # data) =>
         \E w \in writes' \ writes : w.from = "close"]_vars
  /\ [][\A w \in writes :
         (w.from = "close" /\ w.stage = "writing" /\ w \notin writes' /\ diskOk) =>
           disk' = data']_vars
  /\ [][backend = "stopped" => ~FlushTick]_vars
---------------------------------------------------------------------------
(* mergeAggregate *)

(* C32: the merged map has the keys of both sides; for a key of both the  *)
(* entry is the right one when its totalMinutes is strictly larger, 0     *)
(* included, and the left one otherwise; a key of one side keeps its      *)
(* entry.                                                                 *)
C32_LargerMinutesWins ==
  answer.op = "merge" =>
    LET left == data.dailyAggregates
        right == remote[1].value.dailyAggregates
        merged == answer.here.dailyAggregates
    IN /\ DOMAIN merged = (DOMAIN left) \cup (DOMAIN right)
       /\ \A k \in (DOMAIN left) \ (DOMAIN right) : merged[k] = left[k]
       /\ \A k \in (DOMAIN right) \ (DOMAIN left) : merged[k] = right[k]
       /\ \A k \in (DOMAIN left) \cap (DOMAIN right) :
            merged[k] = IF right[k].totalMinutes > left[k].totalMinutes
                          THEN right[k] ELSE left[k]
---------------------------------------------------------------------------
(* aggregateDailyStats *)

PlaysOfToday ==
  {i \in 1 .. Len(data.playRecords) : DayOf(data.playRecords[i].timestamp) = DayOf(now)}

(* C31: aggregateDailyStats run when the log has no play of today changes *)
(* neither the document, so not the aggregate of today either, nor the    *)
(* dirty flag, and writes nothing.                                        *)
C31_EmptyDayNoOp ==
  [][(Aggregate /\ PlaysOfToday = {}) =>
       /\ data' = data
       /\ isDirty' = isDirty
       /\ disk' = disk
       /\ writes' = writes]_vars

C31_Witness ==
  /\ answer.op = "query"
  /\ answer.startDate = DayOf(now) * DAY
  /\ answer.records = <<>>
  /\ PlaysOfToday = {}
  /\ data.playRecords # <<>>
  /\ DayOf(now) \in DOMAIN data.dailyAggregates
  /\ ~isDirty
---------------------------------------------------------------------------
(* Texts that are not JSON *)

(* C33: importData given a text that is not JSON does not throw and       *)
(* leaves the empty document.                                             *)
C33_MalformedImportFallsBack ==
  [][\A t \in ImportTexts :
       (~IsJson(t) /\ ImportFile(t)) =>
         /\ answer' # [op |-> "import", ok |-> FALSE]
         /\ data' = EmptyData]_vars
---------------------------------------------------------------------------
(* Plays during a pass *)

(* The records appended to the log since the pass of c exported it *)
AddedSinceExport(c) ==
  {i \in 1 .. Len(data.playRecords) :
     Identity(data.playRecords[i]) \notin Ids(call[c].localJson.value.playRecords)}

(* C34: a record appended to the log after a pass exported the document   *)
(* is in the log after every later step of that pass, the import of the   *)
(* merged or of the pulled bundle included.                               *)
C34_PlayDuringPassKept ==
  [][\A c \in Callers :
       (InBody(c) /\ IsJson(call[c].localJson)) =>
         \A i \in AddedSinceExport(c) :
           Identity(data.playRecords[i]) \in Ids(data'.playRecords)]_vars
---------------------------------------------------------------------------
(* What a pass keeps *)

(* The identities of the records held by the log or by a file of the      *)
(* remote store                                                           *)
HeldIds ==
  Ids(data.playRecords) \cup
  UNION {Ids(remote[f].value.playRecords) : f \in {g \in FileIds : IsJson(remote[g])}}

HeldIdsNext ==
  Ids(data'.playRecords) \cup
  UNION {Ids(remote'[f].value.playRecords) : f \in {g \in FileIds : IsJson(remote'[g])}}

(* No record was appended to the log since a pass under way exported it *)
NoPlaySinceExport ==
  \A c \in Callers :
    (InBody(c) /\ IsJson(call[c].localJson)) => AddedSinceExport(c) = {}

(* C35: no step of a pass, whichever branch it belongs to, removes the    *)
(* identity of a record from both the local log and the remote store,     *)
(* also when lastHash is unknown and when the download fails.             *)
C35_PassLosesNoRecord ==
  [][(call' # call /\ NoPlaySinceExport) => HeldIds \subseteq HeldIdsNext]_vars
---------------------------------------------------------------------------
(* What a successful pass records *)

(* The pass of c ends in this step with ok: true *)
Succeeds(c) == Ends(c) /\ outcome'.ok

(* The file the pass of c ends on: the one it created, or the one it      *)
(* located                                                                *)
FileOf(c) ==
  IF call[c].pc = "creating" THEN config'.cloudSyncFileId ELSE call[c].fileId

(* C36: when a pass ends with success, on any branch, the lastHash        *)
(* recorded is the digest of the text the remote file then holds,         *)
(* lastError is empty and a file id is recorded.                          *)
C36_SuccessRecordsState ==
  [][\A c \in Callers :
       Succeeds(c) =>
         /\ config'.cloudSyncLastHash = hashString(remote'[FileOf(c)])
         /\ config'.cloudSyncLastError = ""
         /\ config'.cloudSyncFileId # NoFile]_vars
---------------------------------------------------------------------------
(* What a failed pass leaves *)

(* The pass of c ends in this step in the exception handler *)
Fails(c) == Ends(c) /\ ~outcome'.ok

(* C37: when a pass ends in the exception handler, the file id, lastHash  *)
(* and lastSyncTime of the configuration are those read at the call, and  *)
(* the document is the one the pass exported (no play having arrived      *)
(* since), also when it is the upload of a merge that failed.             *)
C37_FailedPassChangesNothing ==
  [][\A c \in Callers :
       Fails(c) =>
         /\ config'.cloudSyncFileId = call[c].cfg.cloudSyncFileId
         /\ config'.cloudSyncLastHash = call[c].cfg.cloudSyncLastHash
         /\ config'.cloudSyncLastSyncTime = call[c].cfg.cloudSyncLastSyncTime
         /\ (IsJson(call[c].localJson) /\ AddedSinceExport(c) = {}) =>
              data' = DataOf(call[c].localJson.value)]_vars
---------------------------------------------------------------------------
(* Quiescence *)

(* The pass of c runs with both sides as the last successful pass left    *)
(* them: the remote file holds the text whose digest is lastHash, and the *)
(* document exported is the document of that text; the download of the   *)
(* file succeeded                                                         *)
Quiet(c) ==
  /\ call[c].cfg.cloudSyncLastHash # NoHash
  /\ call[c].fileId # NoFile
  /\ hashString(remote[call[c].fileId]) = call[c].cfg.cloudSyncLastHash
  /\ IsJson(call[c].localJson)
  /\ IsJson(remote[call[c].fileId])
  /\ DataOf(call[c].localJson.value) = DataOf(remote[call[c].fileId].value)
  /\ data = DataOf(call[c].localJson.value)
  /\ call[c].dlOutcome = "ok"

(* C38: a pass that runs with neither side modified since the last        *)
(* successful pass sends no create and no upload request and leaves the   *)
(* document as it is, whatever the time.                                  *)
C38_QuietPassDoesNothing ==
  [][\A c \in Callers :
       (Ends(c) /\ Quiet(c)) =>
         /\ ~Sent(c, "create")
         /\ ~Sent(c, "upload")
         /\ data' = data]_vars
---------------------------------------------------------------------------
(* Disconnect *)

(* The configuration holds no token: the state disconnect leaves, until   *)
(* an authorization stores tokens again                                   *)
NoStoredToken ==
  config.cloudSyncRefreshToken = "" /\ config.cloudSyncAccessToken = ""

(* C39: while the configuration holds no token, as after disconnect, a    *)
(* call of syncDriveNow sends no request, neither to the token endpoint   *)
(* nor to the store, also with cloud sync switched on again.              *)
C39_DisconnectedStaysOffline ==
  [][\A c \in Callers :
       (NoStoredToken /\ call[c].pc = "idle") =>
         /\ call'[c].pc = "idle"
         /\ call'[c].reqs = <<>>]_vars
---------------------------------------------------------------------------
(* The timeout of an authorization attempt *)

(* The 5-minute timeout of attempt a elapses in this step *)
Elapses(a) == auth[a].flow = "armed" /\ auth'[a].flow = "fired"

(* C40: the timeout of an attempt that has resolved already changes       *)
(* nothing of the configuration and of the session tokens when it         *)
(* elapses: lastError and the tokens stay as they are.                    *)
C40_TimeoutAfterResolveSilent ==
  [][\A a \in Attempts :
       (Elapses(a) /\ auth[a].resolves > 0) =>
         /\ config' = config
         /\ session' = session]_vars

====
